---------------------------- MODULE Spec2Model ----------------------------
(***************************************************************************)
(* Tab registry of the browser session subsystem (chrome-actions):         *)
(* the process-wide browser handle globalBrowser and the name -> page map  *)
(* globalPages, with the registry operations launchChromeBrowser,          *)
(* closeChromeBrowser, createNewTab, switchToTab, closeTab, getChromePage. *)
(*                                                                         *)
(* Operations run serialized: one action of the model is one whole call,   *)
(* from entry to return or throw.  The browser engine (puppeteer) and the  *)
(* file system are the environment: every engine call may succeed or       *)
(* throw, and the executable lookup may find a browser or not.  An engine  *)
(* call that throws has no effect on the engine's state.                   *)
(***************************************************************************)
EXTENDS Integers, Sequences, FiniteSets, TLC

(* ------------------------------ bounds -------------------------------- *)

\* number of browser processes ever launched in a behaviour
MaxBrowsers == 3

\* number of pages ever created in a behaviour
MaxPages == 4

\* tab names the callers supply (the empty string is a legal z.string())
Names == {"", "a", "b"}

\* an address the callers supply
TestUrl == "https://example.test"

(* --------------------------- value encoding --------------------------- *)

\* the null browser / page handle
Null == 0

\* an optional argument: <<>> is undefined (omitted), <<x>> is the value x
None == <<>>

Some(x) == <<x>>

OptNames == {None} \cup {Some(n) : n \in Names}

OptUrls == {None, Some(""), Some(TestUrl)}

\* default of launchChromeBrowser's url parameter
DefaultUrl == "https://www.instagram.com/"

\* default of launchChromeBrowser's tabName parameter
DefaultTabName == "default"

\* JavaScript truthiness of an optional string: undefined and "" are falsy
Truthy(opt) == opt # None /\ opt # Some("")

(* ------------------------ Map<string, Page> --------------------------- *)
(* A JavaScript Map iterates in insertion order; it is modelled as the     *)
(* sequence of its entries [name, page] in that order.                     *)

MapKeys(m) == [i \in 1..Len(m) |-> m[i].name]

MapHas(m, k) == \E i \in 1..Len(m) : m[i].name = k

\* mutant of MapGet: a missing key falls back to the first value
MapGet_first(m, k) ==
  IF MapHas(m, k) THEN m[CHOOSE i \in 1..Len(m) : m[i].name = k].page
  ELSE IF Len(m) = 0 THEN Null ELSE m[1].page

\* Map.get: the value or undefined (Null)
MapGet(m, k) ==
  IF MapHas(m, k) THEN m[CHOOSE i \in 1..Len(m) : m[i].name = k].page ELSE Null

\* mutant of MapSet: a new key is put in front
MapSet_front(m, k, v) ==
  IF MapHas(m, k)
  THEN [i \in 1..Len(m) |-> IF m[i].name = k THEN [name |-> k, page |-> v] ELSE m[i]]
  ELSE <<[name |-> k, page |-> v]>> \o m

\* Map.set: an existing key keeps its position and takes the new value,
\* a new key is appended
MapSet(m, k, v) ==
  IF MapHas(m, k)
  THEN [i \in 1..Len(m) |-> IF m[i].name = k THEN [name |-> k, page |-> v] ELSE m[i]]
  ELSE Append(m, [name |-> k, page |-> v])

\* mutant of MapDelete: the first entry is removed, whatever its key
MapDelete_first(m, k) == IF Len(m) = 0 THEN m ELSE Tail(m)

\* Map.delete: the other entries keep their order
MapDelete(m, k) == SelectSeq(m, LAMBDA e : e.name # k)

\* mutant of MapClear: the registry is not cleared
MapClear_keep(m) == m

\* Map.clear
MapClear(m) == <<>>

\* mutant of MapFirstValue: the last value in insertion order
MapFirstValue_last(m) == IF Len(m) = 0 THEN Null ELSE m[Len(m)].page

\* Map.values().next().value: the first value in insertion order or undefined
MapFirstValue(m) == IF Len(m) = 0 THEN Null ELSE m[1].page

(* ------------------------------- state -------------------------------- *)

VARIABLES
  globalBrowser,  \* the current session's browser id, or Null
  globalPages,    \* the tab registry: Map name -> page id
  browsers,       \* engine: browsers[b] is "live" or "closed", b in launch order
  pageInfo,       \* engine: pageInfo[p] = [browser, open], p in creation order
  lastOp,         \* the last completed call: [op, name, err, ret, calls, url]
  act,            \* the last completed action: [name, args, events, line, threw]
  scroll,         \* the scroll-to-bottom loop: [top, height, client, timer, ticks]
  snap,           \* the in-page snapshot extraction: [stage, doc, searchTerm, matches, html]
  sig,            \* the interrupt handler: [pc, closeAttempted, closeFailed]
  loop,           \* the update loop: [pc, updates, caught, waited, last]
  procs           \* concurrent callers of the registry: procs[p] = [pc, tabName, url, b, page]

vars ==
  <<globalBrowser, globalPages, browsers, pageInfo, lastOp, act, scroll, snap, sig, loop,
    procs>>

\* the state that the registry operations and the agent actions leave alone
aside == <<scroll, snap, sig, loop, procs>>

Errors == {"none", "EngineNotFound", "LaunchFailure", "EngineError",
           "NoSession", "DuplicateTab", "TabNotFound"}

\* what a completed call leaves for its caller: the error it threw ("none"
\* when it returned), the value it returned, the engine calls it issued and
\* the address its page was navigated to ("" when it navigated nowhere)
Result(op, name, err, ret, calls, url) ==
  [op |-> op, name |-> name, err |-> err, ret |-> ret, calls |-> calls, url |-> url]

LiveBrowsers == {b \in 1..Len(browsers) : browsers[b] = "live"}

OpenPages == {p \in 1..Len(pageInfo) : pageInfo[p].open}

RegisteredPages == {globalPages[i].page : i \in 1..Len(globalPages)}

RegisteredNames == {globalPages[i].name : i \in 1..Len(globalPages)}

(* --------------------------- engine effects --------------------------- *)

\* browser.close(): the process ends
BrowserClose(bs, b) == [bs EXCEPT ![b] = "closed"]

\* browser.close() closes every page of that browser
PagesOfClosedBrowser(ps, b) ==
  [p \in 1..Len(ps) |-> IF ps[p].browser = b THEN [ps[p] EXCEPT !.open = FALSE] ELSE ps[p]]

\* puppeteer.launch(): a new live browser process
BrowserLaunch(bs) == Append(bs, "live")

\* browser.newPage(): a new open blank page of browser b
NewPage(ps, b) == Append(ps, [browser |-> b, open |-> TRUE])

\* page.close()
PageClose(ps, p) == [ps EXCEPT ![p].open = FALSE]

(* ------------------------------ getTab -------------------------------- *)

\* getChromePage(tabName?)
getChromePage(tabName) ==
  IF ~Truthy(tabName) THEN MapFirstValue(globalPages)
  ELSE MapGet(globalPages, tabName[1])

\* getChromePageNames()
getChromePageNames == MapKeys(globalPages)

(* ---------------------------- action record --------------------------- *)
(* What one execute() of an agent action did, in order: the engine calls   *)
(* it issued, its timed waits, its writes to the rendering and image slots *)
(* and the lines it pushed to the Reporting Sink (addSystemMessage), each  *)
(* with the number that goes with it.  The Reporting Sink accepts every    *)
(* line.                                                                   *)

Ev(e, n) == [e |-> e, n |-> n]

\* a line of the Reporting Sink: success, error or info (a soft condition)
Line(kind, msg, detail, n) == [kind |-> kind, msg |-> msg, detail |-> detail, n |-> n]

NoLine == Line("none", "", <<>>, 0)

NoAct == [name |-> "init", args |-> <<>>, events |-> <<>>, line |-> NoLine, threw |-> FALSE]

\* the engine calls of a registry function, as events
CallEvents(calls) == [i \in 1..Len(calls) |-> Ev(calls[i], 0)]

\* the number of lines an action pushed to the Reporting Sink
Reports(a) == Cardinality({i \in 1..Len(a.events) : a.events[i].e = "report"})

\* no scroll-to-bottom loop is running
NoScroll == [top |-> 0, height |-> 0, client |-> 0, timer |-> FALSE, ticks |-> 0]

\* no snapshot extraction is running
NoSnap == [stage |-> "none", doc |-> <<>>, searchTerm |-> "", matches |-> <<>>,
           html |-> <<>>]

\* no interrupt signal was delivered
NoSignal == [pc |-> "running", closeAttempted |-> FALSE, closeFailed |-> FALSE]

\* no concurrent callers
NoProcs == <<>>

\* the update loop was not started
NoLoop == [pc |-> "none", updates |-> 0, caught |-> 0, waited |-> 0,
           last |-> [pause |-> <<>>, now |-> 0, invoked |-> FALSE, threw |-> FALSE]]

Init ==
  /\ act = NoAct
  /\ scroll = NoScroll
  /\ snap = NoSnap
  /\ sig = NoSignal
  /\ loop = NoLoop
  /\ procs = NoProcs
  /\ globalBrowser = Null
  /\ globalPages = <<>>
  /\ browsers = <<>>
  /\ pageInfo = <<>>
  /\ lastOp = Result("init", None, "none", Null, <<>>, "")

(* --------------------------- environment ------------------------------ *)
(* The environment's part in one call is the first step of the call that   *)
(* fails, if any: an engine call that throws, or the executable lookup     *)
(* that finds nothing.  A call that never reaches that step is not         *)
(* affected by it.                                                         *)

NoFail == "none"

LaunchFails == {NoFail, "browser.close", "findChromeExecutable",
                "puppeteer.launch", "newPage", "goto"}

CloseFails == {NoFail, "browser.close"}

CreateTabFails == {NoFail, "newPage", "goto"}

SwitchTabFails == {NoFail, "bringToFront"}

CloseTabFails == {NoFail, "page.close"}

(* ------------------------------ launch -------------------------------- *)

\* mutant of HasBrowser: the existing session is never seen
HasBrowser_never(b) == FALSE

\* the guard of the teardown: if (globalBrowser)
HasBrowser(b) == b # Null

\* launchChromeBrowser(url = DefaultUrl, tabName = DefaultTabName)
launchChromeBrowser(url, tabName, fail) ==
  LET u     == IF url = None THEN DefaultUrl ELSE url[1]
      n     == IF tabName = None THEN DefaultTabName ELSE tabName[1]
      had   == HasBrowser(globalBrowser)
      c0    == IF had THEN <<"browser.close">> ELSE <<>>
      \* after the teardown of the existing session
      bs1   == IF had THEN BrowserClose(browsers, globalBrowser) ELSE browsers
      ps1   == IF had THEN PagesOfClosedBrowser(pageInfo, globalBrowser) ELSE pageInfo
      gp1   == IF had THEN MapClear(globalPages) ELSE globalPages
      \* after puppeteer.launch
      bs2   == BrowserLaunch(bs1)
      nb    == Len(bs2)
      \* after newPage and globalPages.set
      ps2   == NewPage(ps1, nb)
      np    == Len(ps2)
      gp2   == MapSet(gp1, n, np)
  IN
  /\ Len(browsers) < MaxBrowsers
  /\ Len(pageInfo) < MaxPages
  /\ IF had /\ fail = "browser.close" THEN
       /\ UNCHANGED <<globalBrowser, globalPages, browsers, pageInfo>>
       /\ lastOp' = Result("launch", Some(n), "EngineError", Null, c0, "")
     ELSE IF fail = "findChromeExecutable" THEN
       /\ globalBrowser' = (IF had THEN Null ELSE globalBrowser)
       /\ globalPages' = gp1
       /\ browsers' = bs1
       /\ pageInfo' = ps1
       /\ lastOp' = Result("launch", Some(n), "EngineNotFound", Null, c0, "")
     ELSE IF fail = "puppeteer.launch" THEN
       /\ globalBrowser' = (IF had THEN Null ELSE globalBrowser)
       /\ globalPages' = gp1
       /\ browsers' = bs1
       /\ pageInfo' = ps1
       /\ lastOp' = Result("launch", Some(n), "LaunchFailure", Null,
                           c0 \o <<"puppeteer.launch">>, "")
     ELSE IF fail = "newPage" THEN
       /\ globalBrowser' = nb
       /\ globalPages' = gp1
       /\ browsers' = bs2
       /\ pageInfo' = ps1
       /\ lastOp' = Result("launch", Some(n), "EngineError", Null,
                           c0 \o <<"puppeteer.launch", "newPage">>, "")
     ELSE IF u # "" /\ fail = "goto" THEN
       /\ globalBrowser' = nb
       /\ globalPages' = gp2
       /\ browsers' = bs2
       /\ pageInfo' = ps2
       /\ lastOp' = Result("launch", Some(n), "EngineError", Null,
                           c0 \o <<"puppeteer.launch", "newPage", "goto">>, "")
     ELSE
       /\ globalBrowser' = nb
       /\ globalPages' = gp2
       /\ browsers' = bs2
       /\ pageInfo' = ps2
       /\ lastOp' = Result("launch", Some(n), "none", Null,
                           c0 \o <<"puppeteer.launch", "newPage">>
                              \o (IF u # "" THEN <<"goto">> ELSE <<>>), u)

Launch ==
  \E url \in OptUrls, tabName \in OptNames, fail \in LaunchFails :
    launchChromeBrowser(url, tabName, fail) /\ UNCHANGED <<act, aside>>

(* ------------------------------- close -------------------------------- *)

\* closeChromeBrowser()
closeChromeBrowser(fail) ==
  IF HasBrowser(globalBrowser) THEN
    IF fail = "browser.close" THEN
      /\ UNCHANGED <<globalBrowser, globalPages, browsers, pageInfo>>
      /\ lastOp' = Result("close", None, "EngineError", Null, <<"browser.close">>, "")
    ELSE
      /\ globalBrowser' = Null
      /\ globalPages' = MapClear(globalPages)
      /\ browsers' = BrowserClose(browsers, globalBrowser)
      /\ pageInfo' = PagesOfClosedBrowser(pageInfo, globalBrowser)
      /\ lastOp' = Result("close", None, "none", Null, <<"browser.close">>, "")
  ELSE
    /\ UNCHANGED <<globalBrowser, globalPages, browsers, pageInfo>>
    /\ lastOp' = Result("close", None, "none", Null, <<>>, "")

Close == \E fail \in CloseFails : closeChromeBrowser(fail) /\ UNCHANGED <<act, aside>>

(* ----------------------------- createTab ------------------------------ *)

\* mutant of BrowserNotLaunched: the missing session is not detected
BrowserNotLaunched_never(b) == FALSE

\* the guard of createNewTab: if (!globalBrowser)
BrowserNotLaunched(b) == b = Null

\* mutant of TabExists: the name collision is not detected
TabExists_never(m, k) == FALSE

\* the duplicate guard of createNewTab: if (globalPages.has(tabName))
TabExists(m, k) == MapHas(m, k)

\* createNewTab(tabName, url?)
createNewTab(tabName, url, fail) ==
  LET ps1 == NewPage(pageInfo, globalBrowser)
      np  == Len(ps1)
      gp1 == MapSet(globalPages, tabName, np)
  IN
  /\ Len(pageInfo) < MaxPages
  /\ IF BrowserNotLaunched(globalBrowser) THEN
       /\ UNCHANGED <<globalBrowser, globalPages, browsers, pageInfo>>
       /\ lastOp' = Result("createTab", Some(tabName), "NoSession", Null, <<>>, "")
     ELSE IF TabExists(globalPages, tabName) THEN
       /\ UNCHANGED <<globalBrowser, globalPages, browsers, pageInfo>>
       /\ lastOp' = Result("createTab", Some(tabName), "DuplicateTab", Null, <<>>, "")
     ELSE IF fail = "newPage" THEN
       /\ UNCHANGED <<globalBrowser, globalPages, browsers, pageInfo>>
       /\ lastOp' = Result("createTab", Some(tabName), "EngineError", Null,
                           <<"newPage">>, "")
     ELSE IF Truthy(url) /\ fail = "goto" THEN
       /\ UNCHANGED <<globalBrowser, browsers>>
       /\ globalPages' = gp1
       /\ pageInfo' = ps1
       /\ lastOp' = Result("createTab", Some(tabName), "EngineError", Null,
                           <<"newPage", "goto">>, "")
     ELSE
       /\ UNCHANGED <<globalBrowser, browsers>>
       /\ globalPages' = gp1
       /\ pageInfo' = ps1
       /\ lastOp' = Result("createTab", Some(tabName), "none", Null,
                           <<"newPage">> \o (IF Truthy(url) THEN <<"goto">> ELSE <<>>),
                           IF Truthy(url) THEN url[1] ELSE "")

CreateTab ==
  \E tabName \in Names, url \in OptUrls, fail \in CreateTabFails :
    createNewTab(tabName, url, fail) /\ UNCHANGED <<act, aside>>

(* ----------------------------- switchTab ------------------------------ *)

\* switchToTab(tabName)
switchToTab(tabName, fail) ==
  LET page == MapGet(globalPages, tabName) IN
  /\ UNCHANGED <<globalBrowser, globalPages, browsers, pageInfo>>
  /\ IF page = Null THEN
       lastOp' = Result("switchTab", Some(tabName), "TabNotFound", Null, <<>>, "")
     ELSE IF fail = "bringToFront" THEN
       lastOp' = Result("switchTab", Some(tabName), "EngineError", Null,
                        <<"bringToFront">>, "")
     ELSE
       lastOp' = Result("switchTab", Some(tabName), "none", Null,
                        <<"bringToFront">>, "")

SwitchTab ==
  \E tabName \in Names, fail \in SwitchTabFails :
    switchToTab(tabName, fail) /\ UNCHANGED <<act, aside>>

(* ------------------------------ closeTab ------------------------------ *)

\* closeTab(tabName)
closeTab(tabName, fail) ==
  LET page == MapGet(globalPages, tabName) IN
  IF page = Null THEN
    /\ UNCHANGED <<globalBrowser, globalPages, browsers, pageInfo>>
    /\ lastOp' = Result("closeTab", Some(tabName), "TabNotFound", Null, <<>>, "")
  ELSE IF fail = "page.close" THEN
    /\ UNCHANGED <<globalBrowser, globalPages, browsers, pageInfo>>
    /\ lastOp' = Result("closeTab", Some(tabName), "EngineError", Null,
                        <<"page.close">>, "")
  ELSE
    /\ UNCHANGED <<globalBrowser, browsers>>
    /\ pageInfo' = PageClose(pageInfo, page)
    /\ globalPages' = MapDelete(globalPages, tabName)
    /\ lastOp' = Result("closeTab", Some(tabName), "none", Null, <<"page.close">>, "")

CloseTab ==
  \E tabName \in Names, fail \in CloseTabFails :
    closeTab(tabName, fail) /\ UNCHANGED <<act, aside>>

(* ------------------------------- getTab ------------------------------- *)

\* a call of getChromePage(tabName?): it returns and changes nothing
GetTab ==
  \E tabName \in OptNames :
    /\ UNCHANGED <<globalBrowser, globalPages, browsers, pageInfo, act, aside>>
    /\ lastOp' = Result("getTab", tabName, "none", getChromePage(tabName), <<>>, "")

(* ---------------------------- specification --------------------------- *)

Next ==
  \/ Launch
  \/ Close
  \/ CreateTab
  \/ SwitchTab
  \/ CloseTab
  \/ GetTab

Spec == Init /\ [][Next]_vars

(* ======================================================================= *)
(* Agent actions: the execute() handlers                                   *)
(* ======================================================================= *)

\* the text that opens the error line of each action
ErrorPrefix(name) ==
  CASE name = "launch_browser" -> "Error launching Chrome"
    [] name = "close_browser" -> "Error closing browser"
    [] name = "create_tab" -> "Error creating tab"
    [] name = "switch_tab" -> "Error switching tab"
    [] name = "close_tab" -> "Error closing tab"
    [] name = "list_tabs" -> "Error listing tabs"
    [] name = "browser_click" -> "Error clicking element"
    [] name = "browser_scroll" -> "Error scrolling page"
    [] name = "browser_wait" -> "Error during wait"
    [] name = "browser_navigate" -> "Error navigating to"
    [] name = "browser_wait_for_navigation" -> "Error waiting for navigation"
    [] name = "view_screen" -> "Error taking screenshot"
    [] name = "browser_snapshot_dom" -> "Error capturing DOM snapshot"

\* mutant of Outcome: the catch block rethrows instead of reporting
Outcome_rethrow(name, args, events, err, okLine) ==
  IF err = "none"
  THEN [name |-> name, args |-> args, events |-> events \o <<Ev("report", 0)>>,
        line |-> okLine, threw |-> FALSE]
  ELSE [name |-> name, args |-> args, events |-> events,
        line |-> NoLine, threw |-> TRUE]

\* the try/catch of every execute(): the try block ends with the success
\* line; an error thrown in it (err) is caught, reported as the error line
\* and not rethrown
Outcome(name, args, events, err, okLine) ==
  [name |-> name, args |-> args,
   events |-> events \o <<Ev("report", 0)>>,
   line |-> IF err = "none" THEN okLine
            ELSE Line("error", ErrorPrefix(name), <<err>>, 0),
   threw |-> FALSE]

\* mutant of SoftOutcome: no return after the info line, the try block goes
\* on to its success line
SoftOutcome_fallthrough(name, args, events, infoLine) ==
  [name |-> name, args |-> args,
   events |-> events \o <<Ev("report", 0), Ev("report", 0)>>,
   line |-> infoLine, threw |-> FALSE]

\* a soft condition inside the try block: the info line is pushed and
\* execute() returns
SoftOutcome(name, args, events, infoLine) ==
  [name |-> name, args |-> args,
   events |-> events \o <<Ev("report", 0)>>,
   line |-> infoLine, threw |-> FALSE]

\* the error thrown by a tab-targeted action when getChromePage returns null:
\* 'Browser not launched. Please run launch_browser first.'
NoBrowser == "NoBrowser"

\* the call of getChromePage(action.tabName) that opens a tab-targeted action
Resolve(tabName) ==
  /\ UNCHANGED <<globalBrowser, globalPages, browsers, pageInfo>>
  /\ lastOp' = Result("getTab", tabName, "none", getChromePage(tabName), <<>>, "")

(* --------------------------- registry actions ------------------------- *)

\* ChromeLaunchAction.execute: launch_browser(headless?, url?, tabName?)
ChromeLaunchAction(url, tabName, fail) ==
    /\ launchChromeBrowser(url, tabName, fail)
    /\ act' = Outcome("launch_browser", [url |-> url, tabName |-> tabName],
                      CallEvents(lastOp'.calls), lastOp'.err,
                      Line("success", "Successfully launched Chrome browser",
                           (IF Truthy(url) THEN <<"Navigated to", url[1]>> ELSE <<>>)
                             \o (IF Truthy(tabName) THEN <<"Created tab", tabName[1]>>
                                 ELSE <<>>), 0))

\* ChromeCloseAction.execute: close_browser()
ChromeCloseAction(fail) ==
    /\ closeChromeBrowser(fail)
    /\ act' = Outcome("close_browser", <<>>, CallEvents(lastOp'.calls), lastOp'.err,
                      Line("success", "Successfully closed Chrome browser", <<>>, 0))

\* CreateTabAction.execute: create_tab(tabName, url?)
CreateTabAction(tabName, url, fail) ==
    /\ createNewTab(tabName, url, fail)
    /\ act' = Outcome("create_tab", [tabName |-> tabName, url |-> url],
                      CallEvents(lastOp'.calls), lastOp'.err,
                      Line("success", "Successfully created new tab",
                           <<tabName>> \o (IF Truthy(url) THEN <<"navigated to", url[1]>>
                                           ELSE <<>>), 0))

\* SwitchTabAction.execute: switch_tab(tabName)
SwitchTabAction(tabName, fail) ==
    /\ switchToTab(tabName, fail)
    /\ act' = Outcome("switch_tab", [tabName |-> tabName],
                      CallEvents(lastOp'.calls), lastOp'.err,
                      Line("success", "Successfully switched to tab", <<tabName>>, 0))

\* CloseTabAction.execute: close_tab(tabName)
CloseTabAction(tabName, fail) ==
    /\ closeTab(tabName, fail)
    /\ act' = Outcome("close_tab", [tabName |-> tabName],
                      CallEvents(lastOp'.calls), lastOp'.err,
                      Line("success", "Successfully closed tab", <<tabName>>, 0))

\* ListTabsAction.execute: list_tabs()
ListTabsAction ==
  LET tabNames == getChromePageNames IN
  /\ UNCHANGED <<globalBrowser, globalPages, browsers, pageInfo>>
  /\ lastOp' = Result("listTabs", None, "none", Null, <<>>, "")
  /\ act' = Outcome("list_tabs", <<>>, <<>>, "none",
                    IF Len(tabNames) = 0
                    THEN Line("success", "No tabs are currently open.", <<>>, 0)
                    ELSE Line("success", "Currently open tabs", tabNames, 0))

(* ------------------------- tab-targeted actions ----------------------- *)

\* the tab names the callers of the tab-targeted actions supply
TabArgs == {None, Some(""), Some("a")}

\* the waitAfterMs values the callers supply
WaitMs == {None, Some(0), Some(300)}

\* the selector the callers supply
TestSelector == "a.post"

\* page.click(selector, { delay: 50 })
ClickDelay == 50

\* mutant of SettleWait: the wait is taken whenever a value is supplied
SettleWait_any(waitAfterMs) == waitAfterMs # None

\* the guard of the settle wait: if (action.waitAfterMs && action.waitAfterMs > 0)
SettleWait(waitAfterMs) ==
  waitAfterMs # None /\ waitAfterMs[1] # 0 /\ waitAfterMs[1] > 0

\* the settle wait after a click or a scroll, as events
SettleEvents(waitAfterMs) ==
  IF SettleWait(waitAfterMs) THEN <<Ev("sleep", waitAfterMs[1])>> ELSE <<>>

ClickFails == {NoFail, "page.$", "page.click"}

\* BrowserClickAction.execute: browser_click(selector, waitAfterMs?, tabName?)
\*   exists: whether page.$(selector) finds an element
BrowserClickAction(waitAfterMs, tabName, exists, fail) ==
    LET page == getChromePage(tabName)
        name == "browser_click"
        args == [selector |-> TestSelector, waitAfterMs |-> waitAfterMs,
                 tabName |-> tabName, exists |-> exists]
    IN
    /\ Resolve(tabName)
    /\ act' =
         IF page = Null THEN Outcome(name, args, <<>>, NoBrowser, NoLine)
         ELSE IF fail = "page.$" THEN
           Outcome(name, args, <<Ev("page.$", 0)>>, "EngineError", NoLine)
         ELSE IF ~exists THEN
           SoftOutcome(name, args, <<Ev("page.$", 0)>>,
                       Line("info", "Element not found for selector",
                            <<TestSelector>>, 0))
         ELSE IF fail = "page.click" THEN
           Outcome(name, args, <<Ev("page.$", 0), Ev("page.click", ClickDelay)>>,
                   "EngineError", NoLine)
         ELSE
           Outcome(name, args,
                   <<Ev("page.$", 0), Ev("page.click", ClickDelay)>>
                     \o SettleEvents(waitAfterMs),
                   "none", Line("success", "Clicked element", <<TestSelector>>, 0))

\* the directions and pixel counts the callers supply
Directions == {None, Some("down"), Some("up")}

TestPixels == 250

PixelArgs == {None, Some(0), Some(TestPixels)}

ToBottomArgs == {None, Some(FALSE), Some(TRUE)}

\* action.pixels ?? 1000
DefaultPixels == 1000

\* mutant of ScrollDelta: the direction is not looked at
ScrollDelta_down(direction, pixels) ==
  IF pixels = None THEN DefaultPixels ELSE pixels[1]

\* (action.direction === 'up' ? -1 : 1) * (action.pixels ?? 1000)
ScrollDelta(direction, pixels) ==
  (IF direction = Some("up") THEN -1 ELSE 1)
    * (IF pixels = None THEN DefaultPixels ELSE pixels[1])

ScrollFails == {NoFail, "page.evaluate"}

\* BrowserScrollAction.execute:
\*   browser_scroll(direction?, pixels?, toBottom?, waitAfterMs?, tabName?)
BrowserScrollAction(direction, pixels, toBottom, waitAfterMs, tabName, fail) ==
    LET page == getChromePage(tabName)
        name == "browser_scroll"
        args == [direction |-> direction, pixels |-> pixels, toBottom |-> toBottom,
                 waitAfterMs |-> waitAfterMs, tabName |-> tabName]
        bottom == toBottom = Some(TRUE)
        evaluate == IF bottom THEN <<Ev("evaluate.scrollToBottom", 0)>>
                  ELSE <<Ev("evaluate.scrollBy", ScrollDelta(direction, pixels))>>
    IN
    /\ Resolve(tabName)
    /\ act' =
         IF page = Null THEN Outcome(name, args, <<>>, NoBrowser, NoLine)
         ELSE IF fail = "page.evaluate" THEN
           Outcome(name, args, evaluate, "EngineError", NoLine)
         ELSE
           Outcome(name, args, evaluate \o SettleEvents(waitAfterMs), "none",
                   IF bottom
                   THEN Line("success", "Scrolled page", <<"toBottom: true">>, 0)
                   ELSE Line("success", "Scrolled page",
                             <<"direction",
                               IF direction = None THEN "down" ELSE direction[1],
                               "pixels">>,
                             IF pixels = None THEN DefaultPixels ELSE pixels[1]))

\* the durations the callers supply
WaitArgs == {None, Some(0), Some(500)}

\* action.milliseconds || 3000
DefaultWait == 3000

\* BrowserWaitAction.execute: browser_wait(milliseconds?)
BrowserWaitAction(milliseconds) ==
    LET waitTime == IF milliseconds = None \/ milliseconds[1] = 0
                    THEN DefaultWait ELSE milliseconds[1]
    IN
    /\ UNCHANGED <<globalBrowser, globalPages, browsers, pageInfo, lastOp>>
    /\ act' = Outcome("browser_wait", [milliseconds |-> milliseconds],
                      <<Ev("sleep", waitTime)>>, "none",
                      Line("success", "Waited for", <<>>, waitTime))

NavigateFails == {NoFail, "page.goto", "page.title"}

\* BrowserNavigateAction.execute: browser_navigate(url, tabName?)
BrowserNavigateAction(tabName, fail) ==
    LET page == getChromePage(tabName)
        name == "browser_navigate"
        args == [url |-> TestUrl, tabName |-> tabName]
    IN
    /\ Resolve(tabName)
    /\ act' =
         IF page = Null THEN Outcome(name, args, <<>>, NoBrowser, NoLine)
         ELSE IF fail = "page.goto" THEN
           Outcome(name, args, <<Ev("page.goto", 0)>>, "EngineError", NoLine)
         ELSE IF fail = "page.title" THEN
           Outcome(name, args, <<Ev("page.goto", 0), Ev("page.title", 0)>>,
                   "EngineError", NoLine)
         ELSE
           Outcome(name, args, <<Ev("page.goto", 0), Ev("page.title", 0)>>, "none",
                   Line("success", "Successfully navigated to",
                        <<TestUrl, "Page title">>, 0))

\* the strategies the callers supply
Strategies == {None, Some("all"), Some("networkidle")}

\* the fixed settle delay after the ready state: setTimeout(resolve, 3000)
ReadySettleMs == 3000

WaitForNavigationFails == {NoFail, "page.waitForFunction"}

\* mutant of NavigationWaitEvents: the strategy selects the wait
NavigationWaitEvents_bystrategy(strategy) ==
  IF strategy = Some("networkidle")
  THEN <<Ev("page.waitForNetworkIdle", 0)>>
  ELSE <<Ev("page.waitForFunction", 0), Ev("sleep", ReadySettleMs)>>

\* page.waitForFunction(() => document.readyState === 'complete'), then
\* the fixed settle delay
NavigationWaitEvents(strategy) ==
  <<Ev("page.waitForFunction", 0), Ev("sleep", ReadySettleMs)>>

\* what BrowserWaitForNavigationAction.execute does in the current state
WaitForNavigationRecord(strategy, tabName, fail) ==
    LET page == getChromePage(tabName)
        name == "browser_wait_for_navigation"
        args == [strategy |-> strategy, tabName |-> tabName]
    IN
    IF page = Null THEN Outcome(name, args, <<>>, NoBrowser, NoLine)
    ELSE IF fail = "page.waitForFunction" THEN
      Outcome(name, args, <<NavigationWaitEvents(strategy)[1]>>, "EngineError", NoLine)
    ELSE
      Outcome(name, args, NavigationWaitEvents(strategy), "none",
              Line("success", "Navigation completed with strategy",
                   <<IF Truthy(strategy) THEN strategy[1] ELSE "all">>, 0))

\* BrowserWaitForNavigationAction.execute:
\*   browser_wait_for_navigation(strategy?, tabName?)
BrowserWaitForNavigationAction(strategy, tabName, fail) ==
    /\ Resolve(tabName)
    /\ act' = WaitForNavigationRecord(strategy, tabName, fail)

(* ---------------------------- observation ----------------------------- *)

\* String.prototype.includes on strings given as sequences of characters
Includes(str, sub) ==
  \E i \in 0..(Len(str) - Len(sub)) : SubSeq(str, i + 1, i + Len(sub)) = sub

FlagHigh == <<"h", "i", "g", "h">>

FlagSmall == <<"s", "m", "a", "l", "l">>

\* the input flags the callers supply
FlagInputs ==
  {None,
   Some(FlagHigh),
   Some(<<"H", "i", "g", "h", " ", "S", "m", "a", "l", "l">>),
   Some(<<"f", "u", "l", "l", " ">> \o FlagHigh \o <<" ">> \o FlagSmall)}

\* mutant of HasFlag: the flag is looked for at the start of the input only
HasFlag_prefix(input, flag) ==
  /\ input # None
  /\ Len(input[1]) >= Len(flag)
  /\ SubSeq(input[1], 1, Len(flag)) = flag

\* action.input?.includes(flag): false for an omitted input
HasFlag(input, flag) == input # None /\ Includes(input[1], flag)

\* quality * 100 with quality = includes('high') ? 1.0 : 0.8
ScreenshotQuality(input) == IF HasFlag(input, FlagHigh) THEN 100 ELSE 80

\* maxWidth = includes('small') ? 800 : 1200
ViewportWidth(input) == IF HasFlag(input, FlagSmall) THEN 800 ELSE 1200

\* the image slot of updateLocationStateImage(location.id, 0, ...)
ImageSlot == 0

ViewScreenFails == {NoFail, "page.setViewport", "page.screenshot",
                    "updateLocationStateImage"}

\* ViewScreenAction.execute: view_screen(input?, tabName?)
\*   the screenshot is taken with fullPage: false and type: 'jpeg'
ViewScreenAction(input, tabName, fail) ==
    LET page == getChromePage(tabName)
        name == "view_screen"
        args == [input |-> input, tabName |-> tabName]
        e1   == <<Ev("page.setViewport", ViewportWidth(input))>>
        e2   == e1 \o <<Ev("page.screenshot.viewport.jpeg", ScreenshotQuality(input))>>
        e3   == e2 \o <<Ev("image", ImageSlot)>>
    IN
    /\ Resolve(tabName)
    /\ act' =
         IF page = Null THEN Outcome(name, args, <<>>, NoBrowser, NoLine)
         ELSE IF fail = "page.setViewport" THEN
           Outcome(name, args, e1, "EngineError", NoLine)
         ELSE IF fail = "page.screenshot" THEN
           Outcome(name, args, e2, "EngineError", NoLine)
         ELSE IF fail = "updateLocationStateImage" THEN
           Outcome(name, args, e2, "SinkError", NoLine)
         ELSE
           Outcome(name, args, e3, "none",
                   Line("success", "Screenshot captured and saved", <<>>, 0))

\* const limit = 100000
SnapshotLimit == 100000

\* the lengths of the markup that the in-page extraction returns
HtmlLengths == {0, 12, SnapshotLimit, SnapshotLimit + 1}

\* html.length > limit ? html.slice(0, limit) : html, as a length
TruncatedLength(len) == IF len > SnapshotLimit THEN SnapshotLimit ELSE len

\* the search terms the callers supply
SearchTerms == {None, Some("busan_food")}

SnapshotFails == {NoFail, "page.evaluate", "page.$$eval.count", "page.$$eval.html",
                  "updateLocationStateRendering"}

\* mutant of RenderingEvents: an empty payload is not written
RenderingEvents_nonempty(len) ==
  IF len = 0 THEN <<>> ELSE <<Ev("rendering", TruncatedLength(len))>>

\* updateLocationStateRendering(this.location.id, truncated)
RenderingEvents(len) == <<Ev("rendering", TruncatedLength(len))>>

\* BrowserSnapshotDomAction.execute: browser_snapshot_dom(searchTerm?, tabName?)
\*   exists: whether page.$$eval('body', els => els.length) is not 0
\*   len: the length of the markup returned by the second page.$$eval
BrowserSnapshotDomAction(searchTerm, tabName, exists, len, fail) ==
    LET page == getChromePage(tabName)
        name == "browser_snapshot_dom"
        args == [searchTerm |-> searchTerm, tabName |-> tabName, exists |-> exists]
        e1   == <<Ev("page.evaluate.opts", 0)>>
        e2   == e1 \o <<Ev("page.$$eval.count", 0)>>
        e3   == e2 \o <<Ev("page.$$eval.html", len)>>
        e4   == e3 \o RenderingEvents(len)
    IN
    /\ Resolve(tabName)
    /\ act' =
         IF page = Null THEN Outcome(name, args, <<>>, NoBrowser, NoLine)
         ELSE IF fail = "page.evaluate" THEN
           Outcome(name, args, e1, "EngineError", NoLine)
         ELSE IF fail = "page.$$eval.count" THEN
           Outcome(name, args, e2, "EngineError", NoLine)
         ELSE IF ~exists THEN
           SoftOutcome(name, args, e2,
                       Line("info", "No elements found matching selector",
                            <<"body">>, 0))
         ELSE IF fail = "page.$$eval.html" THEN
           Outcome(name, args, e2 \o <<Ev("page.$$eval.html", 0)>>, "EngineError", NoLine)
         ELSE IF fail = "updateLocationStateRendering" THEN
           Outcome(name, args, e3, "SinkError", NoLine)
         ELSE
           Outcome(name, args, e4, "none",
                   Line("success",
                        "DOM snapshot captured and saved to location rendering",
                        <<>>, 0))

(* ----------------------- specification of the actions ----------------- *)
(* The thirteen registered actions, invoked one after the other.           *)

\* number of browser processes launched through the actions
ActMaxBrowsers == 2

\* number of pages created through the actions
ActMaxPages == 2

ActBound == Len(browsers) < ActMaxBrowsers /\ Len(pageInfo) < ActMaxPages

launch_browser ==
  \E url \in OptUrls, tabName \in OptNames, fail \in LaunchFails :
    ActBound /\ ChromeLaunchAction(url, tabName, fail) /\ UNCHANGED aside

close_browser ==
  \E fail \in CloseFails : ChromeCloseAction(fail) /\ UNCHANGED aside

create_tab ==
  \E tabName \in Names, url \in OptUrls, fail \in CreateTabFails :
    ActBound /\ CreateTabAction(tabName, url, fail) /\ UNCHANGED aside

switch_tab ==
  \E tabName \in Names, fail \in SwitchTabFails :
    SwitchTabAction(tabName, fail) /\ UNCHANGED aside

close_tab ==
  \E tabName \in Names, fail \in CloseTabFails :
    CloseTabAction(tabName, fail) /\ UNCHANGED aside

list_tabs == ListTabsAction /\ UNCHANGED aside

\* the environment of a click: the first failing call, if any, and whether
\* the selector matches
ClickEnv ==
  {<<f, TRUE>> : f \in ClickFails} \cup {<<NoFail, FALSE>>}

browser_click ==
  \E waitAfterMs \in WaitMs, tabName \in TabArgs, env \in ClickEnv :
    BrowserClickAction(waitAfterMs, tabName, env[2], env[1]) /\ UNCHANGED aside

\* the scroll requests: fixed-delta mode with every direction and pixel
\* count, scroll-to-bottom mode with and without them
ScrollArgs ==
  {<<d, p, None>> : d \in Directions, p \in PixelArgs}
    \cup {<<None, None, b>> : b \in ToBottomArgs}
    \cup {<<Some("up"), Some(TestPixels), Some(TRUE)>>}

browser_scroll ==
  \E a \in ScrollArgs, waitAfterMs \in {None, Some(300)}, tabName \in TabArgs,
     fail \in ScrollFails :
    BrowserScrollAction(a[1], a[2], a[3], waitAfterMs, tabName, fail)
      /\ UNCHANGED aside

browser_wait ==
  \E milliseconds \in WaitArgs : BrowserWaitAction(milliseconds) /\ UNCHANGED aside

browser_navigate ==
  \E tabName \in TabArgs, fail \in NavigateFails :
    BrowserNavigateAction(tabName, fail) /\ UNCHANGED aside

browser_wait_for_navigation ==
  \E strategy \in Strategies, tabName \in TabArgs, fail \in WaitForNavigationFails :
    BrowserWaitForNavigationAction(strategy, tabName, fail) /\ UNCHANGED aside

view_screen ==
  \E input \in FlagInputs, tabName \in TabArgs, fail \in ViewScreenFails :
    ViewScreenAction(input, tabName, fail) /\ UNCHANGED aside

\* the environment of a snapshot: the first failing call, if any, whether
\* the page has a body, and the length of the extracted markup
SnapshotEnv ==
  {<<f, TRUE, 0>> : f \in SnapshotFails \ {NoFail}}
    \cup {<<NoFail, FALSE, 0>>}
    \cup {<<NoFail, TRUE, len>> : len \in HtmlLengths}

browser_snapshot_dom ==
  \E searchTerm \in SearchTerms, tabName \in TabArgs, env \in SnapshotEnv :
    BrowserSnapshotDomAction(searchTerm, tabName, env[2], env[3], env[1])
      /\ UNCHANGED aside

ActNext ==
  \/ launch_browser
  \/ close_browser
  \/ create_tab
  \/ switch_tab
  \/ close_tab
  \/ list_tabs
  \/ browser_click
  \/ browser_scroll
  \/ browser_wait
  \/ browser_navigate
  \/ browser_wait_for_navigation
  \/ view_screen
  \/ browser_snapshot_dom

ActSpec == Init /\ [][ActNext]_vars

(* ------------------- the scroll-to-bottom loop ------------------------ *)
(* browser_scroll with toBottom runs, inside the page, an interval timer   *)
(* whose callback reads the document element's scrollTop, scrollHeight and *)
(* clientHeight, scrolls the window down by a fixed distance and, when the *)
(* position it read was at the bottom within a tolerance, clears the timer *)
(* and resolves.  One tick of the timer is one step.  The page's scroll    *)
(* height does not change while the loop runs; lengths are whole pixels.   *)

\* const distance = 800
ScrollDistance == 800

\* the tolerance of the stop test: scrollHeight - 10
ScrollTolerance == 10

\* the largest scrollable extent (scrollHeight - clientHeight) of a page
MaxExtent == 2420

\* number of timer callbacks followed
MaxTicks == 8

\* the viewport heights (clientHeight) of the pages
ClientHeights == {600, 1080}

\* the scrollable extents of the pages: none, within the tolerance, just
\* beyond it, and around every multiple of the distance
Extents ==
  {e \in 0..MaxExtent :
     e % ScrollDistance \in {0, 5, ScrollTolerance, ScrollTolerance + 1, 400,
                              ScrollDistance - 5}}

\* the positions a page can be at when the loop starts
StartTops(e) == {t \in 0..e : t % 400 = 0} \cup {e}

Min(a, b) == IF a < b THEN a ELSE b

\* window.scrollBy(0, dy): the position moves by dy, kept between the top
\* and the maximum scroll extent of the page
ScrollBy(top, dy, height, client) ==
  LET extent == IF height > client THEN height - client ELSE 0
      to == top + dy
  IN IF to < 0 THEN 0 ELSE Min(to, extent)

\* mutant of ScrollStop: the tolerance is added instead of subtracted
ScrollStop_above(scrollTop, clientHeight, scrollHeight) ==
  scrollTop + clientHeight >= scrollHeight + ScrollTolerance

\* scrollTop + clientHeight >= scrollHeight - 10
ScrollStop(scrollTop, clientHeight, scrollHeight) ==
  scrollTop + clientHeight >= scrollHeight - ScrollTolerance

\* page.evaluate starts the loop on a page: setInterval(..., 100)
ScrollInit ==
  /\ act = NoAct
  /\ globalBrowser = Null
  /\ globalPages = <<>>
  /\ browsers = <<>>
  /\ pageInfo = <<>>
  /\ lastOp = Result("init", None, "none", Null, <<>>, "")
  /\ snap = NoSnap
  /\ sig = NoSignal
  /\ loop = NoLoop
  /\ procs = NoProcs
  /\ \E client \in ClientHeights, e \in Extents :
       \E top \in StartTops(e) :
         scroll = [top |-> top, height |-> client + e, client |-> client,
                   timer |-> TRUE, ticks |-> 0]

\* one callback of the interval timer: the geometry is read, then the
\* window is scrolled, then the stop test is made on what was read
ScrollTick ==
  /\ scroll.timer
  /\ scroll.ticks < MaxTicks
  /\ LET scrollTop == scroll.top
         scrollHeight == scroll.height
         clientHeight == scroll.client
     IN scroll' = [scroll EXCEPT
                     !.top = ScrollBy(scrollTop, ScrollDistance, scrollHeight,
                                      clientHeight),
                     !.timer = ~ScrollStop(scrollTop, clientHeight, scrollHeight),
                     !.ticks = @ + 1]
  /\ UNCHANGED <<globalBrowser, globalPages, browsers, pageInfo, lastOp, act,
                 snap, loop, sig, procs>>

ScrollNext == ScrollTick

\* the timer fires as long as it has not been cleared
ScrollSpec == ScrollInit /\ [][ScrollNext]_vars /\ WF_vars(ScrollTick)

(* -------------------- the in-page snapshot extraction ----------------- *)
(* The function that browser_snapshot_dom evaluates in the page: it picks  *)
(* the scope (main or body), collects the head's meta tags, filters the    *)
(* scope's descendants by the search term when there is one, sanitizes the *)
(* markup of what it kept and joins the pieces.  Markup is a sequence of   *)
(* tokens (tags, comment delimiters, white space, text characters): a tag  *)
(* or a delimiter is one token, so a pattern matches whole tokens.  A      *)
(* text is a sequence of characters.                                       *)

\* length of the markup strings
MaxMarkupLen == 4

\* length of the text contents
MaxTextLen == 3

Seqs(S, n) == UNION {[1..k -> S] : k \in 0..n}

\* the tokens of the markup strings that are sanitized
MarkupTokens ==
  {"<div>", "</div>", "<span>", "</span>", "<script>", "</script>",
   "<!--", "-->", " ", "x"}

\* the characters of the text contents and of the search terms
TextChars == {"b", "B", "f", "#"}

\* \s
IsSpace(t) == t \in {" ", "\n"}

\* the position of the first token tok at or after position i, or 0
RECURSIVE FirstAt(_, _, _)
FirstAt(h, i, tok) ==
  IF i > Len(h) THEN 0
  ELSE IF h[i] = tok THEN i ELSE FirstAt(h, i + 1, tok)

\* html.replace(/<open[^>]*>[\s\S]*?<close>/g, ''): every stretch from an
\* opening token to the first closing token after it is removed, left to right
RECURSIVE RemoveSpans(_, _, _)
RemoveSpans(h, open, close) ==
  IF h = <<>> THEN <<>>
  ELSE IF Head(h) = open /\ FirstAt(h, 2, close) # 0
       THEN RemoveSpans(SubSeq(h, FirstAt(h, 2, close) + 1, Len(h)), open, close)
       ELSE <<Head(h)>> \o RemoveSpans(Tail(h), open, close)

\* the position of the first token that is not white space, at or after i
RECURSIVE SkipSpace(_, _)
SkipSpace(h, i) ==
  IF i <= Len(h) /\ IsSpace(h[i]) THEN SkipSpace(h, i + 1) ELSE i

\* the closing tag \1 of an opening div or span
CloseTag(t) == IF t = "<div>" THEN "</div>" ELSE "</span>"

\* html.replace(/<(div|span)[^>]*>\s*<\/\1>/gi, ''), left to right, one pass
RECURSIVE RemoveEmpty(_)
RemoveEmpty(h) ==
  IF h = <<>> THEN <<>>
  ELSE LET j == SkipSpace(h, 2) IN
       IF Head(h) \in {"<div>", "<span>"} /\ j <= Len(h) /\ h[j] = CloseTag(Head(h))
       THEN RemoveEmpty(SubSeq(h, j + 1, Len(h)))
       ELSE <<Head(h)>> \o RemoveEmpty(Tail(h))

\* html.replace(/\s+/g, ' ')
RECURSIVE CollapseSpace(_)
CollapseSpace(h) ==
  IF h = <<>> THEN <<>>
  ELSE IF IsSpace(Head(h))
       THEN <<" ">> \o CollapseSpace(SubSeq(h, SkipSpace(h, 1), Len(h)))
       ELSE <<Head(h)>> \o CollapseSpace(Tail(h))

\* String.prototype.trim
RECURSIVE Trim(_)
Trim(h) ==
  IF h = <<>> THEN <<>>
  ELSE IF IsSpace(Head(h)) THEN Trim(Tail(h))
  ELSE IF IsSpace(h[Len(h)]) THEN Trim(SubSeq(h, 1, Len(h) - 1))
  ELSE h

\* cleanHtml(html): the replacements in the order of the source.  Of these,
\* the script, comment, empty div/span and white-space replacements match
\* tokens of MarkupTokens; the others (style, link, noscript, data URLs,
\* attributes, links, svg, nav/footer/header, UI class patterns) match none
\* of them and leave such markup as it is.
cleanHtml(html) ==
  LET noScript  == RemoveSpans(html, "<script>", "</script>")
      noComment == RemoveSpans(noScript, "<!--", "-->")
      noEmpty   == RemoveEmpty(noComment)
  IN Trim(CollapseSpace(noEmpty))

\* mutant of toLowerCase: the case is kept
toLowerCase_same(str) == str

\* String.prototype.toLowerCase on the characters of TextChars
toLowerCase(str) ==
  [i \in 1..Len(str) |-> IF str[i] = "B" THEN "b" ELSE str[i]]

\* containsSearchTerm(element, term)
containsSearchTerm(element, term) ==
  IF term = <<>> THEN TRUE
  ELSE LET text == toLowerCase(element.textContent)
           termLower == toLowerCase(term)
           hashtagTerm == <<"#">> \o termLower
       IN Includes(text, termLower) \/ Includes(text, hashtagTerm)

\* Array.prototype.join
RECURSIVE Join(_, _)
Join(parts, sep) ==
  IF parts = <<>> THEN <<>>
  ELSE IF Len(parts) = 1 THEN parts[1]
  ELSE parts[1] \o sep \o Join(Tail(parts), sep)

\* a paragraph element with the given text
Element(text) ==
  [textContent |-> text, outerHTML |-> <<"<p>">> \o text \o <<"</p>">>,
   descendants |-> <<>>]

\* the meta tags of the head of the pages, each by its outerHTML
Metas == {<<>>, << <<"<meta a>">> >>, << <<"<meta a>">>, <<"<meta b>">> >>}

\* the texts of the paragraph next to the first one
OuterTexts == {<<>>, <<"f">>, <<"#", "B", "f">>}

\* a page with two paragraphs, the first one inside <main> when the page has
\* a main element: its head's meta tags, its main element if any, its body
Page(meta, hasMain, t1, t2) ==
  LET inner == Element(t1)
      outer == Element(t2)
      mainEl == [textContent |-> t1,
                 outerHTML |-> <<"<main>">> \o inner.outerHTML \o <<"</main>">>,
                 descendants |-> <<inner>>]
  IN [meta |-> meta,
      main |-> IF hasMain THEN Some(mainEl) ELSE None,
      body |-> [textContent |-> t1 \o t2,
                outerHTML |-> <<"<body>">>
                                \o (IF hasMain THEN mainEl.outerHTML ELSE inner.outerHTML)
                                \o outer.outerHTML \o <<"</body>">>,
                descendants |-> IF hasMain THEN <<mainEl, inner, outer>>
                                ELSE <<inner, outer>>]]

\* a page whose body is the given markup
MarkupPage(h) ==
  [meta |-> <<>>, main |-> None,
   body |-> [textContent |-> <<>>, outerHTML |-> h, descendants |-> <<>>]]

\* the search terms in __snapshot_opts: '' when none was supplied
PageSearchTerms == {<<>>, <<"b", "f">>, <<"B", "f">>}

\* the extraction has its page and its search term, and has not run
SnapStart(doc, searchTerm) ==
  [stage |-> "page", doc |-> doc, searchTerm |-> searchTerm, matches |-> <<>>,
   html |-> <<>>]

\* mutant of baseElements: the main element is not looked for
baseElements_body(doc) == <<doc.body>>

\* const baseElements = mainEl ? [mainEl] : elements
baseElements(doc) == IF doc.main # None THEN <<doc.main[1]>> ELSE <<doc.body>>

\* the function evaluated by the second page.$$eval: what it kept (matches,
\* or the scope itself without a search term) and the markup it returns
Extract(doc, searchTerm) ==
  LET headMeta == Join(doc.meta, <<"\n">>)
      scopeRoot == baseElements(doc)[1]
      matches == IF searchTerm # <<>>
                 THEN SelectSeq(scopeRoot.descendants,
                                LAMBDA el : containsSearchTerm(el, searchTerm))
                 ELSE baseElements(doc)
      body == Join([i \in 1..Len(matches) |-> cleanHtml(matches[i].outerHTML)],
                   <<"\n\n">>)
  IN [matches |-> matches,
      html |-> IF headMeta # <<>> THEN headMeta \o <<"\n\n">> \o body ELSE body]

\* the page and the search term that the extraction is evaluated with: a
\* page of any markup without a search term, or a page of two paragraphs of
\* any text with or without one
SnapInit ==
  /\ act = NoAct
  /\ globalBrowser = Null
  /\ globalPages = <<>>
  /\ browsers = <<>>
  /\ pageInfo = <<>>
  /\ lastOp = Result("init", None, "none", Null, <<>>, "")
  /\ scroll = NoScroll
  /\ sig = NoSignal
  /\ loop = NoLoop
  /\ procs = NoProcs
  /\ \/ \E h \in Seqs(MarkupTokens, MaxMarkupLen) :
          snap = SnapStart(MarkupPage(h), <<>>)
     \/ \E meta \in Metas, hasMain \in BOOLEAN, t1 \in Seqs(TextChars, MaxTextLen),
           t2 \in OuterTexts, term \in PageSearchTerms :
          snap = SnapStart(Page(meta, hasMain, t1, t2), term)

\* html = await page.$$eval(selector, ...)
SnapExtract ==
  /\ snap.stage = "page"
  /\ LET r == Extract(snap.doc, snap.searchTerm)
     IN snap' = [snap EXCEPT !.stage = "extracted", !.matches = r.matches,
                             !.html = r.html]
  /\ UNCHANGED <<globalBrowser, globalPages, browsers, pageInfo, lastOp, act,
                 scroll, loop, sig, procs>>

SnapNext == SnapExtract

SnapSpec == SnapInit /\ [][SnapNext]_vars

(* ------------------------ the interrupt handler ----------------------- *)
(* bootstrap() installs a SIGINT handler: it awaits closeChromeBrowser()   *)
(* inside a try/catch, logs, and calls process.exit(0).  Before the signal *)
(* the process launches the session and opens tabs.  The call of           *)
(* closeChromeBrowser settles: it returns or it throws.                    *)

\* a registry call of the running process
SigintWork ==
  /\ sig.pc = "running"
  /\ ActBound
  /\ \/ \E url \in OptUrls, tabName \in OptNames, fail \in LaunchFails :
          launchChromeBrowser(url, tabName, fail)
     \/ \E tabName \in Names, url \in OptUrls, fail \in CreateTabFails :
          createNewTab(tabName, url, fail)
  /\ UNCHANGED <<act, scroll, snap, loop, sig, procs>>

\* the interrupt signal is delivered: the handler starts
SigintSignal ==
  /\ sig.pc = "running"
  /\ sig' = [sig EXCEPT !.pc = "handler"]
  /\ UNCHANGED <<globalBrowser, globalPages, browsers, pageInfo, lastOp, act,
                 scroll, snap, loop, procs>>

\* mutant of SigintAfterClose: an error of the close is not caught
SigintAfterClose_uncaught(err) == IF err = "none" THEN "closed" ELSE "rejected"

\* try { await closeChromeBrowser() } catch (error) { console.error(...) }:
\* the handler goes on after the close, whether it threw or not
SigintAfterClose(err) == "closed"

\* await closeChromeBrowser() in the handler
SigintClose ==
  /\ sig.pc = "handler"
  /\ \E fail \in CloseFails : closeChromeBrowser(fail)
  /\ sig' = [pc |-> SigintAfterClose(lastOp'.err), closeAttempted |-> TRUE,
             closeFailed |-> lastOp'.err # "none"]
  /\ UNCHANGED <<act, scroll, snap, loop, procs>>

\* console.log('Exiting...'); process.exit(0)
SigintExit ==
  /\ sig.pc = "closed"
  /\ sig' = [sig EXCEPT !.pc = "exited"]
  /\ UNCHANGED <<globalBrowser, globalPages, browsers, pageInfo, lastOp, act,
                 scroll, snap, loop, procs>>

SigintNext ==
  \/ SigintWork
  \/ SigintSignal
  \/ SigintClose
  \/ SigintExit

\* the handler, once started, runs to its end
SigintSpec ==
  Init /\ [][SigintNext]_vars /\ WF_vars(SigintClose) /\ WF_vars(SigintExit)

(* ------------------- concurrent callers of the registry --------------- *)
(* launchChromeBrowser and closeChromeBrowser called by several callers at *)
(* once, without serialization.  A call runs from one await to the next in *)
(* one step; at an await another caller's step may come in between.  The   *)
(* engine's part of a call (the browser process ends, a browser process or *)
(* a page is created) happens at the call; what follows the await happens  *)
(* at the caller's next step.  Every engine call succeeds here.            *)

\* number of concurrent calls of launchChromeBrowser
ConcLaunches == 2

\* the callers: ConcLaunches calls of launchChromeBrowser and one of
\* closeChromeBrowser
Launchers == 1..ConcLaunches

Closer == ConcLaunches + 1

\* the tab names of the concurrent launches
ConcNames == {"a", "b"}

ConcInit ==
  /\ act = NoAct
  /\ globalBrowser = Null
  /\ globalPages = <<>>
  /\ browsers = <<>>
  /\ pageInfo = <<>>
  /\ lastOp = Result("init", None, "none", Null, <<>>, "")
  /\ scroll = NoScroll
  /\ snap = NoSnap
  /\ sig = NoSignal
  /\ loop = NoLoop
  /\ \E names \in [Launchers -> ConcNames] :
       procs = [p \in 1..Closer |->
                  [pc |-> "start",
                   tabName |-> IF p \in Launchers THEN names[p] ELSE "",
                   url |-> TestUrl, b |-> Null, page |-> Null]]

\* mutant of CloseTargets: every live browser is closed
CloseTargets_all == LiveBrowsers

\* the browsers that `if (globalBrowser) await globalBrowser.close()` closes
CloseTargets == IF HasBrowser(globalBrowser) THEN {globalBrowser} ELSE {}

\* the engine's part of globalBrowser.close()
ConcEngineClose ==
  /\ browsers' = [b \in 1..Len(browsers) |->
                    IF b \in CloseTargets THEN "closed" ELSE browsers[b]]
  /\ pageInfo' = [q \in 1..Len(pageInfo) |->
                    IF pageInfo[q].browser \in CloseTargets
                    THEN [pageInfo[q] EXCEPT !.open = FALSE] ELSE pageInfo[q]]

\* launchChromeBrowser up to its first await: with a session registered, the
\* call of globalBrowser.close(); without one, the call of puppeteer.launch
ConcLaunchStart(p) ==
  /\ procs[p].pc = "start"
  /\ IF HasBrowser(globalBrowser)
     THEN /\ ConcEngineClose
          /\ procs' = [procs EXCEPT ![p].pc = "closing"]
     ELSE /\ browsers' = BrowserLaunch(browsers)
          /\ pageInfo' = pageInfo
          /\ procs' = [procs EXCEPT ![p].pc = "launching",
                                    ![p].b = Len(browsers) + 1]
  /\ UNCHANGED <<globalBrowser, globalPages, lastOp, act, scroll, snap, loop, sig>>

\* after await globalBrowser.close(): globalBrowser = null,
\* globalPages.clear(), and the call of puppeteer.launch
ConcLaunchAfterClose(p) ==
  /\ procs[p].pc = "closing"
  /\ globalBrowser' = Null
  /\ globalPages' = MapClear(globalPages)
  /\ browsers' = BrowserLaunch(browsers)
  /\ procs' = [procs EXCEPT ![p].pc = "launching", ![p].b = Len(browsers) + 1]
  /\ UNCHANGED <<pageInfo, lastOp, act, scroll, snap, loop, sig>>

\* after await puppeteer.launch(): globalBrowser = the launched browser, and
\* the call of globalBrowser.newPage()
ConcLaunchRegister(p) ==
  /\ procs[p].pc = "launching"
  /\ globalBrowser' = procs[p].b
  /\ pageInfo' = NewPage(pageInfo, procs[p].b)
  /\ procs' = [procs EXCEPT ![p].pc = "newPage", ![p].page = Len(pageInfo) + 1]
  /\ UNCHANGED <<globalPages, browsers, lastOp, act, scroll, snap, loop, sig>>

\* after await newPage(): globalPages.set(tabName, newPage), and the call of
\* newPage.goto(url)
ConcLaunchSetTab(p) ==
  /\ procs[p].pc = "newPage"
  /\ globalPages' = MapSet(globalPages, procs[p].tabName, procs[p].page)
  /\ procs' = [procs EXCEPT ![p].pc = "goto"]
  /\ UNCHANGED <<globalBrowser, browsers, pageInfo, lastOp, act, scroll, snap, loop, sig>>

\* after await newPage.goto(url): the call returns
ConcLaunchReturn(p) ==
  /\ procs[p].pc = "goto"
  /\ procs' = [procs EXCEPT ![p].pc = "done"]
  /\ UNCHANGED <<globalBrowser, globalPages, browsers, pageInfo, lastOp, act,
                 scroll, snap, loop, sig>>

\* closeChromeBrowser up to its await: the call of globalBrowser.close(), or
\* the return when no session is registered
ConcCloseStart ==
  /\ procs[Closer].pc = "start"
  /\ IF HasBrowser(globalBrowser)
     THEN /\ ConcEngineClose
          /\ procs' = [procs EXCEPT ![Closer].pc = "closing"]
     ELSE /\ UNCHANGED <<browsers, pageInfo>>
          /\ procs' = [procs EXCEPT ![Closer].pc = "done"]
  /\ UNCHANGED <<globalBrowser, globalPages, lastOp, act, scroll, snap, loop, sig>>

\* after await globalBrowser.close(): globalBrowser = null, globalPages.clear()
ConcCloseFinish ==
  /\ procs[Closer].pc = "closing"
  /\ globalBrowser' = Null
  /\ globalPages' = MapClear(globalPages)
  /\ procs' = [procs EXCEPT ![Closer].pc = "done"]
  /\ UNCHANGED <<browsers, pageInfo, lastOp, act, scroll, snap, loop, sig>>

ConcNext ==
  \/ \E p \in Launchers : ConcLaunchStart(p)
  \/ \E p \in Launchers : ConcLaunchAfterClose(p)
  \/ \E p \in Launchers : ConcLaunchRegister(p)
  \/ \E p \in Launchers : ConcLaunchSetTab(p)
  \/ \E p \in Launchers : ConcLaunchReturn(p)
  \/ ConcCloseStart
  \/ ConcCloseFinish

ConcSpec == ConcInit /\ [][ConcNext]_vars

(* ------------------- concurrent callers of createNewTab --------------- *)
(* createNewTab called by several callers at once in a launched session,   *)
(* next to one call of launchChromeBrowser and one of closeChromeBrowser.  *)
(* The page is created at the call of newPage(); what follows the await    *)
(* (globalPages.set and the call of goto) happens at the caller's next     *)
(* step.  newPage() of a browser that was closed rejects, and so does      *)
(* goto() of a page that was closed.  A newPage() that is pending when its *)
(* browser is closed may still give its page or may reject: the order in   *)
(* which the engine settles its promises is the engine's.                  *)

\* number of concurrent calls of createNewTab
ConcCreates == 2

\* the callers of createNewTab, after the callers of ConcSpec
Creators == (Closer + 1)..(Closer + ConcCreates)

\* the session that launchChromeBrowser() leaves: one browser, one tab
\* named "default"; the first caller of launchChromeBrowser, the caller of
\* closeChromeBrowser and the callers of createNewTab are about to call
TabConcInit ==
  /\ act = NoAct
  /\ globalBrowser = 1
  /\ globalPages = <<[name |-> DefaultTabName, page |-> 1]>>
  /\ browsers = <<"live">>
  /\ pageInfo = <<[browser |-> 1, open |-> TRUE]>>
  /\ lastOp = Result("launch", Some(DefaultTabName), "none", Null,
                     <<"puppeteer.launch", "newPage", "goto">>, DefaultUrl)
  /\ scroll = NoScroll
  /\ snap = NoSnap
  /\ sig = NoSignal
  /\ loop = NoLoop
  /\ \E names \in [Creators -> ConcNames] :
       procs = [p \in 1..(Closer + ConcCreates) |->
                  [pc |-> IF p \in Launchers \ {1} THEN "done" ELSE "start",
                   tabName |-> IF p \in Creators THEN names[p]
                               ELSE IF p \in Launchers THEN DefaultTabName ELSE "",
                   url |-> TestUrl, b |-> Null, page |-> Null, err |-> "none"]]

\* createNewTab up to its await: the two guards, and the call of
\* globalBrowser.newPage()
TabCreateStart(p) ==
  /\ procs[p].pc = "start"
  /\ IF BrowserNotLaunched(globalBrowser) THEN
       /\ procs' = [procs EXCEPT ![p].pc = "done", ![p].err = "NoSession"]
       /\ pageInfo' = pageInfo
     ELSE IF TabExists(globalPages, procs[p].tabName) THEN
       /\ procs' = [procs EXCEPT ![p].pc = "done", ![p].err = "DuplicateTab"]
       /\ pageInfo' = pageInfo
     ELSE IF browsers[globalBrowser] # "live" THEN
       /\ procs' = [procs EXCEPT ![p].pc = "done", ![p].err = "EngineError"]
       /\ pageInfo' = pageInfo
     ELSE
       /\ pageInfo' = NewPage(pageInfo, globalBrowser)
       /\ procs' = [procs EXCEPT ![p].pc = "newPage", ![p].b = globalBrowser,
                                 ![p].page = Len(pageInfo) + 1]
  /\ UNCHANGED <<globalBrowser, globalPages, browsers, lastOp, act, scroll, snap, loop, sig>>

\* mutant of SetAfterAwait: the tab is registered only while the session
\* that created its page is the registered one
SetAfterAwait_ifcurrent(m, k, v, b) == IF globalBrowser = b THEN MapSet(m, k, v) ELSE m

\* mutant of SetAfterAwait: a name registered in the meantime is kept
SetAfterAwait_ifabsent(m, k, v, b) == IF MapHas(m, k) THEN m ELSE MapSet(m, k, v)

\* after await newPage(): globalPages.set(tabName, newPage), with no look at
\* the session b that created the page or at the names registered since
SetAfterAwait(m, k, v, b) == MapSet(m, k, v)

\* after await globalBrowser.newPage(): globalPages.set(tabName, newPage),
\* and the call of newPage.goto(url)
TabCreateSetTab(p) ==
  /\ procs[p].pc = "newPage"
  /\ globalPages' = SetAfterAwait(globalPages, procs[p].tabName, procs[p].page,
                                  procs[p].b)
  /\ procs' = [procs EXCEPT ![p].pc = "goto"]
  /\ UNCHANGED <<globalBrowser, browsers, pageInfo, lastOp, act, scroll, snap, loop, sig>>

\* await globalBrowser.newPage() rejects: the browser was closed while the
\* call was pending, and the engine gives no page; the call throws
TabCreateRejects(p) ==
  /\ procs[p].pc = "newPage"
  /\ browsers[procs[p].b] = "closed"
  /\ procs' = [procs EXCEPT ![p].pc = "done", ![p].err = "EngineError"]
  /\ UNCHANGED <<globalBrowser, globalPages, browsers, pageInfo, lastOp, act,
                 scroll, snap, loop, sig>>

\* after await newPage.goto(url): the call returns, or throws what the
\* engine threw when the page was closed under it
TabCreateReturn(p) ==
  /\ procs[p].pc = "goto"
  /\ procs' = [procs EXCEPT ![p].pc = "done",
                            ![p].err = IF pageInfo[procs[p].page].open THEN "none"
                                       ELSE "EngineError"]
  /\ UNCHANGED <<globalBrowser, globalPages, browsers, pageInfo, lastOp, act,
                 scroll, snap, loop, sig>>

TabConcNext ==
  \/ ConcNext
  \/ \E p \in Creators : TabCreateStart(p)
  \/ \E p \in Creators : TabCreateSetTab(p)
  \/ \E p \in Creators : TabCreateRejects(p)
  \/ \E p \in Creators : TabCreateReturn(p)

TabConcSpec == TabConcInit /\ [][TabConcNext]_vars

(* --------------------------- the update loop -------------------------- *)
(* updateLoop of the web server: while (true), one iteration reads the     *)
(* location state, invokes the location update when it is due, and sleeps. *)
(* The storage and the orchestrator are the environment: each may throw,   *)
(* the stored pauseUpdateUntil is any value, the clock reads any time.     *)

\* iterations counted in updates and caught (the counters stay at the bound)
MaxCount == 3

\* what the clock reads, and the times stored in pauseUpdateUntil
Times == 0..2

\* pauseUpdateUntil: null (never set), or a time
PauseValues == {None} \cup {Some(t) : t \in Times}

\* the first step of an iteration that throws, if any
LoopFails == {NoFail, "getOrCreateLocationState", "updateLocation"}

\* setTimeout(resolve, 150) at the end of the try block
LoopDelayMs == 150

\* setTimeout(resolve, 1000) in the catch block
CatchDelayMs == 1000

CountUp(n) == IF n < MaxCount THEN n + 1 ELSE n

\* locationState.pauseUpdateUntil && new Date(pauseUpdateUntil) <= now
UpdateDue(pauseUpdateUntil, now) ==
  pauseUpdateUntil # None /\ pauseUpdateUntil[1] <= now

\* mutant of LoopAfterThrow: the exception ends the loop
LoopAfterThrow_stops(err) == "stopped"

\* an exception thrown in the try block is caught by the catch block
LoopAfterThrow(err) == "caught"

\* void updateLoop(): the first iteration is about to run
LoopStart ==
  /\ loop.pc = "none"
  /\ loop' = [loop EXCEPT !.pc = "top"]
  /\ UNCHANGED <<globalBrowser, globalPages, browsers, pageInfo, lastOp, act,
                 scroll, snap, sig, procs>>

\* the try block of one iteration up to its sleep: getOrCreateLocationState,
\* new Date(), the test of pauseUpdateUntil and updateLocation
LoopIterate ==
  /\ loop.pc = "top"
  /\ \E pauseUpdateUntil \in PauseValues, now \in Times, fail \in LoopFails :
       LET due == UpdateDue(pauseUpdateUntil, now) IN
       IF fail = "getOrCreateLocationState" THEN
         loop' = [loop EXCEPT !.pc = LoopAfterThrow(fail),
                              !.last = [pause |-> None, now |-> 0,
                                        invoked |-> FALSE, threw |-> TRUE]]
       ELSE IF due /\ fail = "updateLocation" THEN
         loop' = [loop EXCEPT !.pc = LoopAfterThrow(fail),
                              !.updates = CountUp(loop.updates),
                              !.last = [pause |-> pauseUpdateUntil, now |-> now,
                                        invoked |-> TRUE, threw |-> TRUE]]
       ELSE
         loop' = [loop EXCEPT !.pc = "delay",
                              !.updates = IF due THEN CountUp(loop.updates)
                                          ELSE loop.updates,
                              !.last = [pause |-> pauseUpdateUntil, now |-> now,
                                        invoked |-> due, threw |-> FALSE]]
  /\ UNCHANGED <<globalBrowser, globalPages, browsers, pageInfo, lastOp, act,
                 scroll, snap, sig, procs>>

\* the sleep at the end of the try block is over: the next iteration
LoopDelay ==
  /\ loop.pc = "delay"
  /\ loop' = [loop EXCEPT !.pc = "top", !.waited = LoopDelayMs]
  /\ UNCHANGED <<globalBrowser, globalPages, browsers, pageInfo, lastOp, act,
                 scroll, snap, sig, procs>>

\* the catch block: its sleep is over, the next iteration
LoopCatch ==
  /\ loop.pc = "caught"
  /\ loop' = [loop EXCEPT !.pc = "top", !.waited = CatchDelayMs,
                          !.caught = CountUp(loop.caught)]
  /\ UNCHANGED <<globalBrowser, globalPages, browsers, pageInfo, lastOp, act,
                 scroll, snap, sig, procs>>

LoopNext ==
  \/ LoopStart
  \/ LoopIterate
  \/ LoopDelay
  \/ LoopCatch

\* the awaited calls settle and the timers fire
LoopSpec ==
  /\ Init
  /\ [][LoopNext]_vars
  /\ WF_vars(LoopIterate)
  /\ WF_vars(LoopDelay)
  /\ WF_vars(LoopCatch)

(* ======================================================================= *)
(* Properties of the tab registry                                          *)
(* ======================================================================= *)

\* the page registered under name n in registry m (Null when there is none),
\* stated on the entries and not through the Map operations
PageNamed(m, n) ==
  IF \E i \in 1..Len(m) : m[i].name = n
  THEN (CHOOSE e \in {m[i] : i \in 1..Len(m)} : e.name = n).page
  ELSE Null

\* the pages of browser b
PagesOf(ps, b) == {p \in 1..Len(ps) : ps[p].browser = b}

(* C1: in every state reachable by serialized registry calls at most one   *)
(* launched browser process is live, and a live one is the one held in     *)
(* globalBrowser.                                                          *)
C1_SingleLiveSession ==
  /\ Cardinality(LiveBrowsers) <= 1
  /\ \A b \in LiveBrowsers : b = globalBrowser

\* a second browser was launched over a live first one
C1_Witness ==
  /\ Len(browsers) >= 2
  /\ browsers[1] = "closed"
  /\ globalBrowser = 2
  /\ LiveBrowsers = {2}
  /\ lastOp.op = "launch"

(* C2: a successful launch issued while an earlier session is registered   *)
(* leaves exactly one live browser, the new one, and a registry of exactly *)
(* one tab, named as this launch names it and bound to a new open page of  *)
(* the new browser; every tab registered before is gone and its page is    *)
(* closed.                                                                 *)
C2_RelaunchStep ==
  (lastOp'.op = "launch" /\ lastOp'.err = "none" /\ globalBrowser # Null) =>
    /\ globalBrowser' # globalBrowser
    /\ LiveBrowsers' = {globalBrowser'}
    /\ Len(globalPages') = 1
    /\ globalPages'[1].name = lastOp'.name[1]
    /\ globalPages'[1].page \in OpenPages'
    /\ globalPages'[1].page \notin 1..Len(pageInfo)
    /\ pageInfo'[globalPages'[1].page].browser = globalBrowser'
    /\ \A i \in 1..Len(globalPages) :
         /\ globalPages[i].page \notin RegisteredPages'
         /\ globalPages[i].page \notin OpenPages'

C2_RelaunchLeavesOneTab == [][C2_RelaunchStep]_vars

\* the second launch succeeded over a session that had held two pages
C2_Witness ==
  /\ lastOp.op = "launch"
  /\ lastOp.err = "none"
  /\ globalBrowser = 2
  /\ Cardinality(PagesOf(pageInfo, 1)) >= 2
  /\ Len(globalPages) = 1

(* C3: whenever launch fails, for any cause, no session is registered      *)
(* afterwards: globalBrowser is null and the registry is empty.            *)
C3_FailedLaunchLeavesNoSession ==
  (lastOp.op = "launch" /\ lastOp.err # "none") =>
    (globalBrowser = Null /\ globalPages = <<>>)

(* C4: whenever createTab fails, for any cause, the registry and the set   *)
(* of open pages are what they were before the call.                       *)
C4_FailedCreateTabStep ==
  (lastOp'.op = "createTab" /\ lastOp'.err # "none") =>
    (globalPages' = globalPages /\ OpenPages' = OpenPages)

C4_FailedCreateTabChangesNothing == [][C4_FailedCreateTabStep]_vars

(* C5: in a live session createTab of a name that is not registered        *)
(* succeeds (unless the engine throws) and registers the name, after the   *)
(* registered ones, with a new open page; createTab of a registered name   *)
(* fails with the duplicate-tab error, issues no engine call, creates no   *)
(* page and leaves the registry as it was, with exactly one tab of that    *)
(* name, bound to the page it had.                                         *)
C5_CreateTabStep ==
  (lastOp'.op = "createTab" /\ globalBrowser # Null) =>
    LET n == lastOp'.name[1] IN
    IF n \in RegisteredNames
    THEN /\ lastOp'.err = "DuplicateTab"
         /\ lastOp'.calls = <<>>
         /\ pageInfo' = pageInfo
         /\ globalPages' = globalPages
         /\ globalBrowser' = globalBrowser
         /\ Cardinality({i \in 1..Len(globalPages') : globalPages'[i].name = n}) = 1
         /\ PageNamed(globalPages', n) = PageNamed(globalPages, n)
    ELSE /\ lastOp'.err \in {"none", "EngineError"}
         /\ lastOp'.err = "none" =>
              /\ globalPages' = globalPages \o <<[name |-> n, page |-> Len(pageInfo) + 1]>>
              /\ Len(pageInfo') = Len(pageInfo) + 1
              /\ Len(pageInfo') \in OpenPages'
              /\ pageInfo'[Len(pageInfo')].browser = globalBrowser

C5_DuplicateTabRejected == [][C5_CreateTabStep]_vars

\* n1 and then n2 were created in a session, and a further createTab(n1)
\* was rejected
C5_Witness ==
  /\ lastOp.op = "createTab"
  /\ lastOp.err = "DuplicateTab"
  /\ Len(globalPages) = 3
  /\ globalPages[2].name = lastOp.name[1]
  /\ globalPages[3].name # lastOp.name[1]
  /\ globalPages[2].page < globalPages[3].page

(* C6: createTab called when no session exists fails with the no-session   *)
(* error, issues no engine call, creates no page and registers nothing;    *)
(* the registry stays empty.                                               *)
C6_CreateTabWithoutSessionStep ==
  (lastOp'.op = "createTab" /\ globalBrowser = Null) =>
    /\ lastOp'.err = "NoSession"
    /\ lastOp'.calls = <<>>
    /\ pageInfo' = pageInfo
    /\ browsers' = browsers
    /\ globalBrowser' = Null
    /\ globalPages' = <<>>

C6_CreateTabNeedsSession == [][C6_CreateTabWithoutSessionStep]_vars

\* createTab was refused after the session had been closed
C6_Witness ==
  /\ lastOp.op = "createTab"
  /\ lastOp.err = "NoSession"
  /\ globalBrowser = Null
  /\ globalPages = <<>>
  /\ Len(browsers) >= 1

(* C7 as stated: after every close() no session is registered and the      *)
(* registry is empty, and a close() with no session raises no error.       *)
C7_CloseAlwaysEndsSession ==
  lastOp.op = "close" =>
    /\ globalBrowser = Null
    /\ globalPages = <<>>

(* C7 as amended: close() with a live session whose engine close does not  *)
(* throw ends with no session registered, an empty registry, the browser   *)
(* closed and all its pages closed; when the engine close throws, the      *)
(* error is rethrown and the session and registry stay as they were;       *)
(* close() with no session returns without error, issues no engine call    *)
(* and leaves the empty registry unchanged.                                *)
C7_CloseStep ==
  lastOp'.op = "close" =>
    IF globalBrowser = Null
    THEN /\ lastOp'.err = "none"
         /\ lastOp'.calls = <<>>
         /\ globalBrowser' = Null
         /\ globalPages = <<>>
         /\ globalPages' = <<>>
         /\ browsers' = browsers
         /\ pageInfo' = pageInfo
    ELSE IF lastOp'.err = "none"
    THEN /\ globalBrowser' = Null
         /\ globalPages' = <<>>
         /\ globalBrowser \notin LiveBrowsers'
         /\ PagesOf(pageInfo', globalBrowser) \cap OpenPages' = {}
    ELSE /\ lastOp'.err = "EngineError"
         /\ globalBrowser' = globalBrowser
         /\ globalPages' = globalPages
         /\ browsers' = browsers
         /\ pageInfo' = pageInfo

C7_CloseEndsSession == [][C7_CloseStep]_vars

\* a session with two tabs was closed
C7_Witness ==
  /\ lastOp.op = "close"
  /\ lastOp.err = "none"
  /\ lastOp.calls = <<"browser.close">>
  /\ globalBrowser = Null
  /\ globalPages = <<>>
  /\ Cardinality(PagesOf(pageInfo, Len(browsers))) >= 2

(* C8: every registered tab belongs to the current live session: with no   *)
(* session the registry is empty, and every registered page was created by *)
(* the browser held in globalBrowser, which has not been closed.           *)
C8_TabsBelongToSession ==
  /\ globalBrowser = Null => globalPages = <<>>
  /\ \A p \in RegisteredPages :
       /\ pageInfo[p].browser = globalBrowser
       /\ browsers[pageInfo[p].browser] = "live"

\* tabs are registered in a second session while the first one is closed
C8_Witness ==
  /\ Len(browsers) >= 2
  /\ browsers[1] = "closed"
  /\ PagesOf(pageInfo, 1) # {}
  /\ Len(globalPages) >= 2

(* C9: getTab with a supplied name returns the page registered under       *)
(* exactly that name, or nothing when the name is not registered; with the *)
(* name omitted it returns the default tab, or nothing when the registry   *)
(* is empty.                                                               *)
C9_GetTabByExactName ==
  (lastOp.op = "getTab" /\ lastOp.err = "none") =>
    IF lastOp.name = None
    THEN lastOp.ret = (IF globalPages = <<>> THEN Null ELSE globalPages[1].page)
    ELSE lastOp.ret = PageNamed(globalPages, lastOp.name[1])

(* C10: getTab with no name returns the earliest-registered tab still in   *)
(* the registry (pages are created in increasing order and registered when *)
(* created, so that is the registered page created first), or nothing when *)
(* the registry is empty.                                                  *)
C10_DefaultTabIsEarliest ==
  LET d == getChromePage(None) IN
  /\ IF globalPages = <<>> THEN d = Null
     ELSE d \in RegisteredPages /\ \A p \in RegisteredPages : d <= p
  /\ (lastOp.op = "getTab" /\ lastOp.name = None) => lastOp.ret = d

\* "a" then "b" were registered, closeTab("a") succeeded, and getTab()
\* returns the page of "b"
C10_Witness ==
  /\ lastOp.op = "closeTab"
  /\ lastOp.name = Some("a")
  /\ lastOp.err = "none"
  /\ Len(browsers) = 1
  /\ Len(pageInfo) = 2
  /\ globalPages = <<[name |-> "b", page |-> 2]>>
  /\ getChromePage(None) = 2

(* C11: listTabNames returns exactly the currently registered names, each  *)
(* once, in the order in which they were registered (a tab is registered   *)
(* when its page is created, so that is the order of page creation); a     *)
(* closed tab is not listed.                                               *)
C11_ListTabNamesInOrder ==
  LET L == getChromePageNames IN
  /\ \A i, j \in 1..Len(L) : i # j => L[i] # L[j]
  /\ {L[i] : i \in 1..Len(L)} = {e.name : e \in {globalPages[k] : k \in 1..Len(globalPages)}}
  /\ \A i \in 1..Len(L) : PageNamed(globalPages, L[i]) \in OpenPages
  /\ \A i, j \in 1..Len(L) :
       i < j => PageNamed(globalPages, L[i]) < PageNamed(globalPages, L[j])

\* two tabs were registered, "a" first; closeTab("a") succeeded and the list
\* is the other name alone
C11_Witness ==
  /\ lastOp.op = "closeTab"
  /\ lastOp.name = Some("a")
  /\ lastOp.err = "none"
  /\ Len(browsers) = 1
  /\ Len(pageInfo) = 2
  /\ ~pageInfo[1].open
  /\ getChromePageNames = <<"b">>

(* C13: a successful closeTab(n) closes the page bound to n and nothing    *)
(* else, and removes exactly the entry n: the other entries keep their     *)
(* page and their relative order, and the session stays live (also when    *)
(* the last tab is closed); a successful switchTab(n) changes neither the  *)
(* registry nor the session.                                               *)
C13_TabStep ==
  /\ (lastOp'.op = "closeTab" /\ lastOp'.err = "none") =>
       LET n == lastOp'.name[1]
           k == CHOOSE i \in 1..Len(globalPages) : globalPages[i].name = n
       IN
       /\ n \in RegisteredNames
       /\ OpenPages' = OpenPages \ {globalPages[k].page}
       /\ globalPages[k].page \in OpenPages
       /\ Len(globalPages') = Len(globalPages) - 1
       /\ \A i \in 1..Len(globalPages') :
            globalPages'[i] = IF i < k THEN globalPages[i] ELSE globalPages[i + 1]
       /\ globalBrowser' = globalBrowser
       /\ globalBrowser' \in LiveBrowsers'
       /\ browsers' = browsers
  /\ (lastOp'.op = "switchTab" /\ lastOp'.err = "none") =>
       /\ lastOp'.name[1] \in RegisteredNames
       /\ globalPages' = globalPages
       /\ globalBrowser' = globalBrowser
       /\ browsers' = browsers
       /\ pageInfo' = pageInfo

C13_CloseTabRemovesOneEntry == [][C13_TabStep]_vars

\* the middle one of three tabs was closed: the two others stay, in order,
\* in a live session
C13_Witness ==
  /\ lastOp.op = "closeTab"
  /\ lastOp.err = "none"
  /\ Len(globalPages) = 2
  /\ globalBrowser \in LiveBrowsers
  /\ \E p \in 1..Len(pageInfo) :
       /\ ~pageInfo[p].open
       /\ pageInfo[p].browser = globalBrowser
       /\ globalPages[1].page < p
       /\ p < globalPages[2].page


(* --------------------------- agent actions ---------------------------- *)
(* The properties below are about ActSpec.  A step of ActSpec is one       *)
(* execute(); act' is the record of that execute().                        *)

\* C12: switchTab(n) and closeTab(n) with n not registered fail with the
\* tab-not-found error, issue no engine call and leave the registry and the
\* engine as they were; the switch_tab / close_tab action reports that error
\* as its one outcome line.
C12_UnknownTabStep ==
  (/\ act'.name \in {"switch_tab", "close_tab"}
   /\ \A i \in 1..Len(globalPages) : globalPages[i].name # act'.args.tabName)
    => /\ lastOp'.op = (IF act'.name = "switch_tab" THEN "switchTab" ELSE "closeTab")
       /\ lastOp'.err = "TabNotFound"
       /\ lastOp'.calls = <<>>
       /\ globalPages' = globalPages
       /\ globalBrowser' = globalBrowser
       /\ browsers' = browsers
       /\ pageInfo' = pageInfo
       /\ act'.events = <<Ev("report", 0)>>
       /\ act'.line = Line("error", ErrorPrefix(act'.name), <<"TabNotFound">>, 0)

C12_UnknownTabIsRejected == [][C12_UnknownTabStep]_vars

\* close_tab of an unregistered name while another tab is registered
C12_Witness ==
  /\ act.name = "close_tab"
  /\ lastOp.err = "TabNotFound"
  /\ Len(globalPages) > 0
  /\ act.line.kind = "error"

\* the names of the thirteen actions
ActionNames ==
  {"launch_browser", "close_browser", "create_tab", "switch_tab", "close_tab",
   "list_tabs", "browser_click", "browser_scroll", "browser_wait",
   "browser_navigate", "browser_wait_for_navigation", "view_screen",
   "browser_snapshot_dom"}

\* C14: every invocation of each of the thirteen actions pushes exactly one
\* outcome line to the Reporting Sink, on the success path, on the soft
\* not-found path and on the error path: never zero and never two.
C14_ExactlyOneOutcomeLine ==
  act.name # "init" =>
    /\ act.name \in ActionNames
    /\ Reports(act) = 1
    /\ act.line.kind \in {"success", "info", "error"}

\* a snapshot of a page without a body: the soft path
C14_Witness ==
  /\ act.name = "browser_snapshot_dom"
  /\ act.line.kind = "info"
  /\ Len(act.events) = 3
  /\ Reports(act) = 1

\* the actions that call one registry operation
RegistryActions ==
  {"launch_browser", "close_browser", "create_tab", "switch_tab", "close_tab"}

\* C15: no execute() propagates a fault: when the registry operation or an
\* engine call of the action fails, the action reports the error line that
\* names the failure, and execute() returns.
C15_NoFaultPropagates ==
  act.name # "init" =>
    /\ ~act.threw
    /\ (act.name \in RegistryActions /\ lastOp.err # "none")
         => act.line = Line("error", ErrorPrefix(act.name), <<lastOp.err>>, 0)
    /\ act.line.kind = "error" =>
         /\ Len(act.line.detail) = 1
         /\ act.line.detail[1] \in (Errors \cup {NoBrowser, "SinkError"}) \ {"none"}
         /\ act.events[Len(act.events)] = Ev("report", 0)

\* close_browser whose browser.close() throws
C15_Witness ==
  /\ act.name = "close_browser"
  /\ lastOp.err = "EngineError"
  /\ act.line.kind = "error"
  /\ ~act.threw

\* the actions that work on the page of one tab
TabTargetedActions ==
  {"browser_click", "browser_scroll", "browser_navigate",
   "browser_wait_for_navigation", "view_screen", "browser_snapshot_dom"}

\* C16: a tab-targeted action whose target resolves to no tab (the registry
\* is empty, or a name was supplied and no tab is registered under it) issues
\* no engine call, writes nothing to the rendering or image slot, and reports
\* the one error line that tells the caller to launch the browser first.
\* Violated for the supplied name "" (see C9).
C16_NoTabNoInteraction ==
  (/\ act.name \in TabTargetedActions
   /\ \/ Len(globalPages) = 0
      \/ /\ act.args.tabName # None
         /\ \A i \in 1..Len(globalPages) : globalPages[i].name # act.args.tabName[1])
    => /\ act.events = <<Ev("report", 0)>>
       /\ act.line = Line("error", ErrorPrefix(act.name), <<NoBrowser>>, 0)

\* C17: close_browser invoked while no session is registered reports a
\* no-instance-running line, not the success-closed line, and raises no
\* error.  Violated: the action reports the success-closed line.
C17_CloseWithoutSessionReportsNoInstance ==
  (act.name = "close_browser" /\ lastOp.err = "none" /\ lastOp.calls = <<>>)
    => /\ ~act.threw
       /\ act.line.kind # "error"
       /\ act.line.msg # "Successfully closed Chrome browser"

\* C18: browser_click on a resolved page whose lookup returns: when the
\* selector matches nothing, the not-found line (not an error line) is the
\* only thing after the lookup: no click, no settle wait; when it matches,
\* the click comes first, then the settle wait exactly when waitAfterMs > 0,
\* and the success line is last.  An error line is never a not-found report.
C18_ClickOrder ==
  act.name = "browser_click" =>
    LET w == act.args.waitAfterMs
        settle == IF w # None /\ w[1] > 0 THEN <<Ev("sleep", w[1])>> ELSE <<>>
    IN
    /\ act.line.kind = "error" => act.line.detail \in {<<NoBrowser>>, <<"EngineError">>}
    /\ (act.line.kind # "error" /\ ~act.args.exists) =>
         /\ act.line.kind = "info"
         /\ act.events = <<Ev("page.$", 0), Ev("report", 0)>>
    /\ (act.line.kind # "error" /\ act.args.exists) =>
         /\ act.line.kind = "success"
         /\ act.events = <<Ev("page.$", 0), Ev("page.click", 50)>>
                           \o settle \o <<Ev("report", 0)>>
    /\ (\E i \in 1..Len(act.events) : act.events[i].e = "page.click")
         => act.args.exists

\* a click with a settle wait requested whose selector matches nothing
C18_Witness ==
  /\ act.name = "browser_click"
  /\ act.args.waitAfterMs = Some(300)
  /\ ~act.args.exists
  /\ act.line.kind = "info"

\* C20: browser_scroll on a resolved page: in fixed-delta mode the page is
\* scrolled by exactly +pixels for direction down or omitted and by exactly
\* -pixels for direction up, pixels being 1000 when omitted; with toBottom
\* true the scroll is the scroll-to-bottom loop whatever direction and pixels
\* are.
C20_ScrollDelta ==
  (act.name = "browser_scroll" /\ act.line.detail # <<NoBrowser>>) =>
    LET p == IF act.args.pixels = None THEN 1000 ELSE act.args.pixels[1]
    IN
    IF act.args.toBottom = Some(TRUE)
    THEN /\ act.events[1] = Ev("evaluate.scrollToBottom", 0)
         /\ \A i \in 1..Len(act.events) : act.events[i].e # "evaluate.scrollBy"
    ELSE /\ act.events[1] =
              Ev("evaluate.scrollBy", IF act.args.direction = Some("up") THEN 0 - p ELSE p)
         /\ \A i \in 1..Len(act.events) : act.events[i].e # "evaluate.scrollToBottom"

\* a scroll up with the pixel count omitted
C20_Witness ==
  /\ act.name = "browser_scroll"
  /\ act.args.direction = Some("up")
  /\ act.args.pixels = None
  /\ act.line.kind = "success"
  /\ act.events[1].n = 0 - 1000

(* ----------------------- scroll-to-bottom loop ------------------------ *)
(* The property below is about ScrollSpec.                                 *)

\* C19: on a page whose scroll height is finite and does not grow, the
\* scroll-to-bottom loop stops after finitely many 800px steps (at most one
\* more than the steps needed to come within 10px of the bottom), and once
\* it has stopped the scroll position plus the viewport height is within
\* 10px of the scroll height.
C19_ScrollToBottomTerminates ==
  /\ <>(~scroll.timer)
  /\ [](~scroll.timer =>
          /\ scroll.top + scroll.client >= scroll.height - 10
          /\ scroll.top + scroll.client <= scroll.height
          /\ scroll.ticks * 800 <= (scroll.height - scroll.client) + 800 + 799)

\* the loop has stopped on a page more than two steps long, started at the top
C19_Witness ==
  /\ ~scroll.timer
  /\ scroll.height - scroll.client > 1600
  /\ scroll.ticks >= 4
  /\ scroll.top = scroll.height - scroll.client

(* --------------------------- observation ------------------------------ *)
(* The properties C21, C24, C25, C27 and C28 are about ActSpec.            *)

\* C21: the payload of a snapshot handed to the rendering slot has at most
\* 100,000 characters: longer markup is cut to its first 100,000 characters
\* and the outcome is flagged truncated, shorter markup is handed over as it
\* is and the outcome is not flagged.  Violated: nothing the action hands
\* over or reports says whether the markup was cut.
C21_TruncationIsFlagged ==
  (act.name = "browser_snapshot_dom" /\ act.line.kind = "success") =>
    LET len == act.events[3].n
        payload == act.events[4].n
    IN
    /\ act.events[3].e = "page.$$eval.html"
    /\ act.events[4].e = "rendering"
    /\ payload <= 100000
    /\ payload = (IF len > 100000 THEN 100000 ELSE len)
    /\ (len > 100000) <=>
         (\E k \in 1..Len(act.line.detail) : act.line.detail[k] = "truncated")

(* ------------------------ snapshot extraction ------------------------- *)
(* The properties C22, C23 and C26 are about SnapSpec.                     *)

\* the letters a and b are the same up to case
SameLetter(a, b) == a = b \/ {a, b} = {"b", "B"}

\* text contains t when the case of the letters is not looked at
ContainsAnyCase(text, t) ==
  \E i \in 0..(Len(text) - Len(t)) :
    \A k \in 1..Len(t) : SameLetter(text[i + k], t[k])

\* the element the extraction works in: main when the page has one, else body
ScopeOf(doc) == IF doc.main # None THEN doc.main[1] ELSE doc.body

\* C22: with a non-empty search term t the extraction keeps a descendant of
\* the scope root if and only if its text content contains t or "#" followed
\* by t, whatever the case of the letters; the kept elements are in document
\* order.
C22_SearchTermFilter ==
  (snap.stage = "extracted" /\ snap.searchTerm # <<>>) =>
    LET all == ScopeOf(snap.doc).descendants
        t == snap.searchTerm
        keep(el) == \/ ContainsAnyCase(el.textContent, t)
                    \/ ContainsAnyCase(el.textContent, <<"#">> \o t)
    IN
    /\ \A i \in 1..Len(all) :
         keep(all[i]) <=> (\E j \in 1..Len(snap.matches) : snap.matches[j] = all[i])
    /\ \A j \in 1..Len(snap.matches) :
         \E i \in 1..Len(all) : snap.matches[j] = all[i]
    /\ Len(snap.matches) <= Len(all)

\* the term "bf" on a page where "#Bf" is kept and another element is not
C22_Witness ==
  /\ snap.stage = "extracted"
  /\ snap.searchTerm = <<"b", "f">>
  /\ \E j \in 1..Len(snap.matches) : snap.matches[j].textContent = <<"#", "B", "f">>
  /\ Len(snap.matches) < Len(ScopeOf(snap.doc).descendants)

\* C23: sanitization is idempotent: cleanHtml(cleanHtml(h)) = cleanHtml(h)
\* for every markup h.  Violated by nested empty elements.
C23_CleanHtmlIdempotent ==
  snap.stage # "none" =>
    LET h == snap.doc.body.outerHTML
    IN cleanHtml(cleanHtml(h)) = cleanHtml(h)

\* C26: without a search term the extraction returns the sanitized markup of
\* the main element when the page has one and of the body otherwise,
\* unfiltered, with the head's meta tags, when there are any, ahead of it
\* and a blank line in between.
C26_ScopeSelection ==
  (snap.stage = "extracted" /\ snap.searchTerm = <<>>) =>
    LET doc == snap.doc
        meta == doc.meta
        head == IF Len(meta) = 0 THEN <<>>
                ELSE IF Len(meta) = 1 THEN meta[1] \o <<"\n\n">>
                ELSE meta[1] \o <<"\n">> \o meta[2] \o <<"\n\n">>
        scope == IF doc.main # None THEN doc.main[1].outerHTML ELSE doc.body.outerHTML
    IN
    /\ snap.html = head \o cleanHtml(scope)
    /\ snap.matches = <<ScopeOf(doc)>>

\* a page with a main element and meta tags, extracted without a search term
C26_Witness ==
  /\ snap.stage = "extracted"
  /\ snap.searchTerm = <<>>
  /\ snap.doc.main # None
  /\ Len(snap.doc.meta) = 2
  /\ snap.html[1] = "<meta a>"
  /\ snap.html[5] = "<main>"

(* ------------------------ observation actions ------------------------ *)

\* C24: browser_snapshot_dom on a resolved page: when the element lookup
\* finds nothing, the no-elements line is reported and nothing is written to
\* the rendering slot; in every other run without a failure the rendering
\* slot is written exactly once, right before the success line, also when
\* the payload is empty because a supplied search term matched nothing.
C24_SnapshotWritesOnce ==
  act.name = "browser_snapshot_dom" =>
    LET writes == {i \in 1..Len(act.events) : act.events[i].e = "rendering"}
    IN
    /\ (act.line.kind # "error" /\ ~act.args.exists) =>
         /\ act.line = Line("info", "No elements found matching selector", <<"body">>, 0)
         /\ writes = {}
    /\ (act.line.kind # "error" /\ act.args.exists) =>
         /\ act.line.kind = "success"
         /\ writes = {Len(act.events) - 1}
         /\ act.events[Len(act.events)] = Ev("report", 0)
    /\ act.line.kind = "error" =>
         act.line.detail \in {<<NoBrowser>>, <<"EngineError">>, <<"SinkError">>}

\* a snapshot with a search term whose payload is empty
C24_Witness ==
  /\ act.name = "browser_snapshot_dom"
  /\ act.args.searchTerm # None
  /\ act.line.kind = "success"
  /\ act.events[3] = Ev("page.$$eval.html", 0)
  /\ act.events[4] = Ev("rendering", 0)

\* sub occurs in the string str
Occurs(str, sub) ==
  \E a \in 0..Len(str) : \E b \in a..Len(str) : SubSeq(str, a + 1, b) = sub

C27_StrategyStep ==
  act'.name = "browser_wait_for_navigation" =>
    /\ globalBrowser' = globalBrowser
    /\ globalPages' = globalPages
    /\ browsers' = browsers
    /\ pageInfo' = pageInfo
    /\ \E fail \in WaitForNavigationFails :
         /\ act' = WaitForNavigationRecord(act'.args.strategy, act'.args.tabName, fail)
         /\ \A other \in Strategies :
              LET o == WaitForNavigationRecord(other, act'.args.tabName, fail)
              IN /\ o.events = act'.events
                 /\ o.line.kind = act'.line.kind
                 /\ o.line.msg = act'.line.msg
                 /\ o.threw = act'.threw
    /\ act'.line.kind = "success" =>
         act'.events = <<Ev("page.waitForFunction", 0), Ev("sleep", 3000),
                         Ev("report", 0)>>

C28_WaitsSuppliedDuration ==
  act.name = "browser_wait" =>
    LET ms == act.args.milliseconds
        duration == IF ms = None THEN 3000 ELSE ms[1]
    IN
    /\ act.events = <<Ev("sleep", duration), Ev("report", 0)>>
    /\ act.line = Line("success", "Waited for", <<>>, duration)

(* -------------------------- interrupt handler ------------------------- *)
(* The property below is about SigintSpec.                                 *)

\* C29: once the interrupt signal is delivered, the process attempts to
\* close the browser session and exits afterwards: it has not exited before
\* the close was attempted, and it exits also when the close fails.
C29_CloseThenExit ==
  /\ [](sig.pc = "exited" => sig.closeAttempted)
  /\ [](sig.pc \in {"running", "handler"} => ~sig.closeAttempted)
  /\ [](sig.pc = "handler" => <>(sig.pc = "exited"))

\* the process has exited after a close that failed: the session is still
\* registered
C29_Witness ==
  /\ sig.pc = "exited"
  /\ sig.closeFailed
  /\ globalBrowser # Null
  /\ lastOp.calls = <<"browser.close">>

(* --------------------------- concurrent callers ----------------------- *)
(* The property below is about ConcSpec.                                   *)

\* a live browser that is not registered and that no caller is about to
\* register
Orphan(b) ==
  /\ browsers[b] = "live"
  /\ globalBrowser # b
  /\ \A p \in DOMAIN procs : ~(procs[p].pc = "launching" /\ procs[p].b = b)

\* C30: without serialization, two launch calls that both pass the
\* existing-session check before either registers its browser leave two
\* browser processes live with only the last one registered (the state of
\* C30_Witness); the other one is lost for good: no step of any caller,
\* close() included, ends it or registers it again.
C30_OrphanStep ==
  \A b \in 1..Len(browsers) :
    Orphan(b) => (browsers'[b] = "live" /\ globalBrowser' # b)

C30_OrphanIsNeverClosed == [][C30_OrphanStep]_vars

\* both launches have returned, the close call has found no session
\* registered and returned: two browsers are live, the one launched last is
\* registered and the other is an orphan
C30_Witness ==
  /\ \A p \in DOMAIN procs : procs[p].pc = "done"
  /\ Len(procs) > 0
  /\ Cardinality(LiveBrowsers) = 2
  /\ globalBrowser \in LiveBrowsers
  /\ \E b \in LiveBrowsers : Orphan(b)

(* ----------------------- launch is not atomic ------------------------- *)
(* The properties below are about Spec.                                    *)

\* C33: a launch issued while a session is registered closes that session
\* and clears all its tabs before it looks for a browser executable: when
\* the lookup then finds none, the only engine call issued is the close of
\* the old browser, and the caller is left with neither the old session nor
\* a new one (no session registered, no tab registered, no browser live, no
\* browser launched).
C33_FailedRelaunchStep ==
  (lastOp'.op = "launch" /\ lastOp'.err = "EngineNotFound" /\ globalBrowser # Null) =>
    /\ lastOp'.calls = <<"browser.close">>
    /\ globalBrowser' = Null
    /\ globalPages' = <<>>
    /\ browsers'[globalBrowser] = "closed"
    /\ Len(browsers') = Len(browsers)
    /\ LiveBrowsers' = LiveBrowsers \ {globalBrowser}
    /\ \A i \in 1..Len(globalPages) : globalPages[i].page \notin OpenPages'

C33_FailedRelaunchLosesSession == [][C33_FailedRelaunchStep]_vars

\* a session with two tabs was lost to a launch that found no executable
C33_Witness ==
  /\ lastOp.op = "launch"
  /\ lastOp.err = "EngineNotFound"
  /\ lastOp.calls = <<"browser.close">>
  /\ globalBrowser = Null
  /\ globalPages = <<>>
  /\ Len(browsers) = 1
  /\ LiveBrowsers = {}
  /\ Cardinality(PagesOf(pageInfo, 1)) >= 2

\* C34: when the engine fails while closing (browser.close() in
\* closeChromeBrowser or in the teardown of launchChromeBrowser,
\* page.close() in closeTab; the failing call is the last one the function
\* issued), the call throws the error to its caller and the session handle
\* and the tab registry are what they were before the call: the session is
\* registered with all its tabs, and the tab named in closeTab is
\* registered.
C34_FailedCloseStep ==
  (/\ lastOp'.err = "EngineError"
   /\ lastOp'.calls # <<>>
   /\ lastOp'.calls[Len(lastOp'.calls)] \in {"browser.close", "page.close"}) =>
    /\ lastOp'.op \in {"close", "launch", "closeTab"}
    /\ globalBrowser' = globalBrowser
    /\ globalPages' = globalPages
    /\ lastOp'.op \in {"close", "launch"} => globalBrowser' # Null
    /\ lastOp'.op = "closeTab" =>
         /\ lastOp'.name[1] \in RegisteredNames'
         /\ PageNamed(globalPages', lastOp'.name[1]) = PageNamed(globalPages, lastOp'.name[1])

C34_FailedCloseKeepsRegistry == [][C34_FailedCloseStep]_vars

\* the teardown of a launch over a session of two tabs failed
C34_Witness ==
  /\ lastOp.op = "launch"
  /\ lastOp.err = "EngineError"
  /\ lastOp.calls = <<"browser.close">>
  /\ globalBrowser \in LiveBrowsers
  /\ Len(globalPages) = 2
  /\ RegisteredPages \subseteq OpenPages

\* C35: the default tab is the registered tab whose current registration
\* is the oldest (pages are numbered in creation order, and a registration
\* is of a page just created): getChromePage() returns the registered page
\* with the smallest number and getChromePageNames() lists the names by
\* age of registration.  A createTab in a session that has tabs puts its
\* name last and leaves the default where it was, also when the name was
\* registered and removed before: after "a", "b", closeTab("a"),
\* createTab("a") the names are <<"b", "a">> and the default is the page of
\* "b" (the state of C35_Witness).
C35_OldestFirst ==
  /\ \A i, j \in 1..Len(globalPages) :
       i < j => globalPages[i].page < globalPages[j].page
  /\ globalPages # <<>> =>
       /\ getChromePage(None) \in RegisteredPages
       /\ \A q \in RegisteredPages : getChromePage(None) <= q
       /\ PageNamed(globalPages, getChromePageNames[1]) = getChromePage(None)

C35_ReAddStep ==
  (lastOp'.op = "createTab" /\ lastOp'.err = "none" /\ globalPages # <<>>) =>
    /\ getChromePage(None)' = getChromePage(None)
    /\ getChromePageNames' = Append(getChromePageNames, lastOp'.name[1])

C35_DefaultIsOldestRegistration == []C35_OldestFirst /\ [][C35_ReAddStep]_vars

\* "a" and "b" were registered in this order, "a" was closed and created
\* again, and getChromePage() returned the page of "b"
C35_Witness ==
  /\ lastOp.op = "getTab"
  /\ lastOp.name = None
  /\ getChromePageNames = <<"b", "a">>
  /\ lastOp.ret = PageNamed(globalPages, "b")
  /\ PageNamed(globalPages, "b") < PageNamed(globalPages, "a")
  /\ \E p \in 1..Len(pageInfo) :
       /\ p < PageNamed(globalPages, "b")
       /\ pageInfo[p].browser = globalBrowser
       /\ ~pageInfo[p].open

(* ---------------------- launch_browser navigation --------------------- *)
(* The property below is about ActSpec.                                    *)

\* C36: launch_browser navigates the initial tab only when its caller
\* supplies a url: invoked without one it issues no goto, and its success
\* line mentions a navigation exactly when a goto was issued.
C36_LaunchNavigatesOnlyOnRequest ==
  (act.name = "launch_browser" /\ act.line.kind = "success") =>
    LET navigated == \E i \in 1..Len(act.events) : act.events[i].e = "goto"
        mentioned == \E i \in 1..Len(act.line.detail) :
                       act.line.detail[i] = "Navigated to"
    IN /\ act.args.url = None => ~navigated
       /\ navigated <=> mentioned

(* ------------------- concurrent callers of createNewTab --------------- *)
(* The properties below are about TabConcSpec.                             *)

\* caller p of createNewTab resumes after await newPage() in this step,
\* with the page
Resumes(p) == procs[p].pc = "newPage" /\ procs'[p].pc = "goto"

\* C31: a createNewTab call that runs its guards while another call of the
\* same name is suspended at await newPage() passes the duplicate guard and
\* has its page created; when a call resumes and finds its name registered
\* in the meantime, its registration takes the place of the earlier one:
\* the name is bound to the resuming call's page, the page bound before
\* stays as it was (open) and no name refers to it any more.  In the state
\* of C31_Witness both calls have returned without an error.
C31_InterleavedCreateStep ==
  /\ \A p, q \in Creators :
       (/\ p # q
        /\ procs[p].tabName = procs[q].tabName
        /\ procs[p].pc = "newPage"
        /\ procs[q].pc = "start" /\ procs'[q].pc # "start"
        /\ globalBrowser \in LiveBrowsers
        /\ procs[q].tabName \notin RegisteredNames) =>
         /\ procs'[q].pc = "newPage"
         /\ procs'[q].err = "none"
         /\ procs'[q].page \in OpenPages' \ OpenPages
  /\ \A p \in Creators :
       (Resumes(p) /\ procs[p].tabName \in RegisteredNames) =>
         LET earlier == PageNamed(globalPages, procs[p].tabName) IN
         /\ PageNamed(globalPages', procs[p].tabName) = procs[p].page
         /\ earlier \notin RegisteredPages'
         /\ Len(globalPages') = Len(globalPages)
         /\ pageInfo' = pageInfo

C31_LaterCreateOverwrites == [][C31_InterleavedCreateStep]_vars

\* two createNewTab calls of one name have both returned without an error,
\* both pages are open in the registered session, and the name is bound to
\* one of them only
C31_Witness ==
  /\ Len(procs) > 0
  /\ \E p, q \in Creators :
       /\ p # q
       /\ procs[p].tabName = procs[q].tabName
       /\ procs[p].pc = "done" /\ procs[p].err = "none"
       /\ procs[q].pc = "done" /\ procs[q].err = "none"
       /\ {procs[p].page, procs[q].page} \subseteq OpenPages
       /\ pageInfo[procs[p].page].browser = globalBrowser
       /\ pageInfo[procs[q].page].browser = globalBrowser
       /\ PageNamed(globalPages, procs[p].tabName) = procs[q].page
       /\ procs[p].page \notin RegisteredPages

\* C32: a createNewTab call that resumes after await newPage() registers
\* its tab whatever happened to the session in the meantime: the name is
\* bound to its page also when the session that created the page was closed
\* (by closeChromeBrowser or by the teardown of a launch) before the call
\* resumed, and the session handle is not touched.  So the registry can hold
\* a tab whose page belongs to a closed browser, also with no session
\* registered (the state of C32_Witness).
C32_ResumeStep ==
  \A p \in Creators :
    Resumes(p) =>
      /\ PageNamed(globalPages', procs[p].tabName) = procs[p].page
      /\ globalBrowser' = globalBrowser

C32_ResumedCreateRegistersAnyway == [][C32_ResumeStep]_vars

\* closeChromeBrowser has returned, no session is registered, and the
\* registry holds the tab of a createNewTab call that resumed afterwards:
\* its page is closed and belongs to the closed browser
C32_Witness ==
  /\ Len(procs) > 0
  /\ procs[Closer].pc = "done"
  /\ globalBrowser = Null
  /\ LiveBrowsers = {}
  /\ \E p \in DOMAIN procs :
       /\ p \in Creators
       /\ procs[p].pc \in {"goto", "done"}
       /\ procs[p].page # Null
       /\ PageNamed(globalPages, procs[p].tabName) = procs[p].page
       /\ procs[p].page \notin OpenPages
       /\ browsers[pageInfo[procs[p].page].browser] = "closed"

(* ---------------------------- the update loop ------------------------- *)
(* The property below is about LoopSpec.                                   *)

\* an iteration invoked updateLocation only with pauseUpdateUntil set and
\* not later than the time it read
C37_InvokedOnlyWhenDue ==
  loop.last.invoked =>
    (loop.last.pause # None /\ loop.last.pause[1] <= loop.last.now)

\* the loop goes from the catch block to the top of its next iteration,
\* after the sleep of the catch block
C37_CatchStep ==
  loop.pc = "caught" => (loop'.pc = "top" /\ loop'.waited = CatchDelayMs)

\* C37: an iteration of the update loop invokes the location update only if
\* pauseUpdateUntil is set and not later than the current time, and no
\* exception raised in an iteration stops the loop: it is caught, and after
\* the sleep of the catch block the next iteration begins.
C37_UpdateLoopKeepsRunning ==
  /\ []C37_InvokedOnlyWhenDue
  /\ [](loop.pc # "stopped")
  /\ [][C37_CatchStep]_vars
  /\ [](loop.pc = "caught" => <>(loop.pc = "top"))

\* updateLocation threw in one iteration, the exception was caught, and a
\* later iteration invoked updateLocation again and went to its sleep
C37_Witness ==
  /\ loop.pc = "delay"
  /\ loop.caught >= 1
  /\ loop.updates >= 2
  /\ loop.last.invoked
  /\ ~loop.last.threw
  /\ loop.waited = CatchDelayMs

=============================================================================
